---- MODULE Spec2Model ----
(***************************************************************************)
(* A model of the nil-assignment linter for protobuf response messages.    *)
(*                                                                         *)
(* The linter is a go/analysis pass: run() walks the syntax tree of one    *)
(* package in pre-order, looks at assignments, composite literals and      *)
(* return statements, and reports a diagnostic for every message-typed     *)
(* field of a response message that is nil or left out.                    *)
(*                                                                         *)
(* The model keeps                                                         *)
(*   - the type information the front end supplies (Schema, the static     *)
(*     type stored in every expression node),                              *)
(*   - the syntax tree of the package (prog),                              *)
(*   - the scanner's position in the pre-order traversal (idx),            *)
(*   - the analyzedComposites map of run(), and                            *)
(*   - the sequence of diagnostics handed to pass.Reportf (diags).         *)
(*                                                                         *)
(* Go types are sequences of strings: the type constructors from the       *)
(* outside in, then the name: *User is <<"*", "User">>, []*User is         *)
(* <<"[]", "*", "User">>, string is <<"string">>.                          *)
(***************************************************************************)
EXTENDS Integers, Sequences, FiniteSets, TLC

(***************************************************************************)
(* Type information (go/types), as the front end supplies it.              *)
(***************************************************************************)

\* Import paths are sequences of path segments.
KnownPkg == <<"google.golang.org", "protobuf", "types", "known">>
GenprotoTypePkg == <<"google.golang.org", "genproto", "googleapis", "type">>
ExamplePkg == <<"github.com", "nickheyer", "go_no_nil_linter", "gen", "example", "v1">>

Field(n, t, e) == [name |-> n, typ |-> t, exported |-> e]

\* The named types of the analysed package and of the packages it imports.
\* words: the type name split at its capital letters; proto: the type has a
\* ProtoMessage() method without parameters and results; struct: the
\* underlying type is a struct; fields: the struct's fields in declaration
\* order.
Schema ==
  [ UserResponse |->
      [ words |-> <<"User", "Response">>, pkg |-> ExamplePkg, proto |-> TRUE, struct |-> TRUE,
        fields |-> << Field("state", <<"MessageState">>, FALSE),
                      Field("User", <<"*", "User">>, TRUE),
                      Field("LastLogin", <<"*", "Timestamp">>, TRUE),
                      Field("RelatedUsers", <<"[]", "*", "User">>, TRUE),
                      Field("Manager", <<"*", "*", "User">>, TRUE) >> ],
    BatchResult |->
      [ words |-> <<"Batch", "Result">>, pkg |-> ExamplePkg, proto |-> TRUE, struct |-> TRUE,
        fields |-> << Field("Response", <<"*", "UserResponse">>, TRUE),
                      Field("Errors", <<"map", "string", "*", "User">>, TRUE) >> ],
    StatusReply |->
      [ words |-> <<"Status", "Reply">>, pkg |-> ExamplePkg, proto |-> TRUE, struct |-> TRUE,
        fields |-> << Field("Address", <<"*", "Address">>, TRUE),
                      Field("Code", <<"int32">>, TRUE) >> ],
    ProfileResponse |->
      [ words |-> <<"Profile", "Response">>, pkg |-> ExamplePkg, proto |-> TRUE, struct |-> TRUE,
        fields |-> << Field("Nickname", <<"*", "StringValue">>, TRUE),
                      Field("Age", <<"*", "Int32Value">>, TRUE),
                      Field("Birthday", <<"*", "Date">>, TRUE),
                      Field("Created", <<"*", "Timestamp">>, TRUE) >> ],
    CategoryReply |->
      [ words |-> <<"Category", "Reply">>, pkg |-> ExamplePkg, proto |-> TRUE, struct |-> TRUE,
        fields |-> << Field("Category", <<"*", "Category">>, TRUE),
                      Field("Team", <<"*", "Team">>, TRUE) >> ],
    Category |->
      [ words |-> <<"Category">>, pkg |-> ExamplePkg, proto |-> TRUE, struct |-> TRUE,
        fields |-> << Field("Parent", <<"*", "Category">>, TRUE) >> ],
    Team |->
      [ words |-> <<"Team">>, pkg |-> ExamplePkg, proto |-> TRUE, struct |-> TRUE,
        fields |-> << Field("Lead", <<"*", "Member">>, TRUE) >> ],
    Member |->
      [ words |-> <<"Member">>, pkg |-> ExamplePkg, proto |-> TRUE, struct |-> TRUE,
        fields |-> << Field("Team", <<"*", "Team">>, TRUE) >> ],
    ResponseInfo |->
      [ words |-> <<"Response", "Info">>, pkg |-> ExamplePkg, proto |-> TRUE, struct |-> TRUE,
        fields |-> << Field("User", <<"*", "User">>, TRUE) >> ],
    User |->
      [ words |-> <<"User">>, pkg |-> ExamplePkg, proto |-> TRUE, struct |-> TRUE,
        fields |-> << Field("Name", <<"string">>, TRUE),
                      Field("Address", <<"*", "Address">>, TRUE),
                      Field("Nickname", <<"*", "string">>, TRUE),
                      Field("Meta", <<"*", "Meta">>, TRUE) >> ],
    Address |->
      [ words |-> <<"Address">>, pkg |-> ExamplePkg, proto |-> TRUE, struct |-> TRUE,
        fields |-> << Field("Street", <<"string">>, TRUE),
                      Field("Location", <<"*", "Location">>, TRUE),
                      Field("Apartment", <<"*", "*", "Location">>, TRUE),
                      Field("Tags", <<"[2]", "*", "Location">>, TRUE) >> ],
    Location |->
      [ words |-> <<"Location">>, pkg |-> ExamplePkg, proto |-> TRUE, struct |-> TRUE,
        fields |-> << Field("Latitude", <<"float64">>, TRUE) >> ],
    Timestamp |->
      [ words |-> <<"Timestamp">>, pkg |-> KnownPkg \o <<"timestamppb">>, proto |-> TRUE, struct |-> TRUE,
        fields |-> << Field("Seconds", <<"int64">>, TRUE) >> ],
    Date |->
      [ words |-> <<"Date">>, pkg |-> GenprotoTypePkg \o <<"date">>, proto |-> TRUE, struct |-> TRUE,
        fields |-> << Field("Year", <<"int32">>, TRUE) >> ],
    StringValue |->
      [ words |-> <<"String", "Value">>, pkg |-> KnownPkg \o <<"wrapperspb">>, proto |-> TRUE, struct |-> TRUE,
        fields |-> << Field("Value", <<"string">>, TRUE) >> ],
    Int32Value |->
      [ words |-> <<"Int32", "Value">>, pkg |-> ExamplePkg, proto |-> TRUE, struct |-> TRUE,
        fields |-> << Field("Value", <<"int32">>, TRUE) >> ],
    Meta |->
      [ words |-> <<"Meta">>, pkg |-> ExamplePkg, proto |-> FALSE, struct |-> TRUE,
        fields |-> << Field("Owner", <<"*", "User">>, TRUE) >> ],
    MessageState |->
      [ words |-> <<"Message", "State">>, pkg |-> <<"google.golang.org", "protobuf", "internal", "impl">>,
        proto |-> FALSE, struct |-> TRUE, fields |-> << >> ] ]

NamedTypes == DOMAIN Schema

IsPointer(t) == Len(t) > 1 /\ Head(t) = "*"
IsSlice(t) == Len(t) > 1 /\ Head(t) = "[]"
IsNamed(t) == Len(t) = 1 /\ Head(t) \in NamedTypes
Elem(t) == Tail(t)
Deref(t) == IF IsPointer(t) THEN Elem(t) ELSE t

\* strings.HasSuffix on a type name, at the granularity of its words.
HasSuffix(words, w) == Len(words) > 0 /\ words[Len(words)] = w

\* strings.Contains on an import path, at the granularity of path segments.
Contains(path, sub) ==
  \E i \in 0..(Len(path) - Len(sub)) : SubSeq(path, i + 1, i + Len(sub)) = sub

(***************************************************************************)
(* messages.go                                                             *)
(***************************************************************************)

hasProtoMessageMethod(n) == Schema[n].proto

isProtobufMessageType(t) ==
  LET u == Deref(t) IN IsNamed(u) /\ hasProtoMessageMethod(Head(u))

scalarWrappers ==
  {"StringValue", "Int32Value", "Int64Value", "UInt32Value", "UInt64Value",
   "FloatValue", "DoubleValue", "BoolValue", "BytesValue"}

\* isMessageField as it would be if it looked through a slice at its elements.
isMessageFieldOfElements(field) ==
  LET u == Deref(IF IsSlice(field.typ) THEN Elem(field.typ) ELSE field.typ) IN
  IF ~IsNamed(u) THEN FALSE
  ELSE IF ~hasProtoMessageMethod(Head(u)) THEN FALSE
  ELSE Head(u) \notin scalarWrappers

\* isMessageField as it would be without the test for ProtoMessage().
isMessageFieldOfAnyNamed(field) ==
  IF IsSlice(field.typ) THEN FALSE
  ELSE LET u == Deref(field.typ) IN
       IF ~IsNamed(u) THEN FALSE
       ELSE Head(u) \notin scalarWrappers

\* isMessageField as it would be if the well-known types were not messages.
isMessageFieldCustomOnly(field) ==
  IF IsSlice(field.typ) THEN FALSE
  ELSE LET u == Deref(field.typ) IN
       IF ~IsNamed(u) THEN FALSE
       ELSE IF ~hasProtoMessageMethod(Head(u)) THEN FALSE
       ELSE IF Contains(Schema[Head(u)].pkg, KnownPkg) THEN FALSE
       ELSE IF Contains(Schema[Head(u)].pkg, GenprotoTypePkg) THEN FALSE
       ELSE Head(u) \notin scalarWrappers

isMessageField(field) ==
  IF IsSlice(field.typ) THEN FALSE
  ELSE LET u == Deref(field.typ) IN
       IF ~IsNamed(u) THEN FALSE
       ELSE IF ~hasProtoMessageMethod(Head(u)) THEN FALSE
       ELSE IF Contains(Schema[Head(u)].pkg, KnownPkg) THEN TRUE
       ELSE IF Contains(Schema[Head(u)].pkg, GenprotoTypePkg) THEN TRUE
       ELSE IF Head(u) \in scalarWrappers THEN FALSE
       ELSE TRUE

isOptionalField(field) ==
  IsPointer(field.typ) /\ IsPointer(Elem(field.typ))

\* The struct's fields, or <<>> when getStructType returns nil.
getStructType(t) ==
  LET u == Deref(t) IN
  IF IsNamed(u) /\ Schema[Head(u)].struct THEN Schema[Head(u)].fields ELSE << >>

hasStructType(t) ==
  LET u == Deref(t) IN IsNamed(u) /\ Schema[Head(u)].struct

getMessageFields(structType) ==
  SelectSeq(structType,
            LAMBDA f : f.exported /\ isMessageField(f) /\ ~isOptionalField(f))

\* The first field of that name among the struct's fields, as a set (empty
\* when the loop of getFieldFromType ends without a match).
fieldNamed(structType, fieldName) ==
  { structType[i] : i \in { j \in 1..Len(structType) :
        /\ structType[j].name = fieldName
        /\ \A h \in 1..(j - 1) : structType[h].name # fieldName } }

\* The set of fields of that name (empty when getFieldFromType returns nil).
getFieldFromType(t, fieldName) == fieldNamed(getStructType(t), fieldName)

(***************************************************************************)
(* responses.go                                                            *)
(***************************************************************************)

\* isResponseMessage as it would be without the naming convention.
isResponseMessageAnyName(t) ==
  LET u == Deref(t) IN IsNamed(u) /\ hasProtoMessageMethod(Head(u))

isResponseMessage(t) ==
  LET u == Deref(t) IN
  /\ IsNamed(u)
  /\ hasProtoMessageMethod(Head(u))
  /\ \/ HasSuffix(Schema[Head(u)].words, "Response")
     \/ HasSuffix(Schema[Head(u)].words, "Reply")
     \/ HasSuffix(Schema[Head(u)].words, "Result")

(***************************************************************************)
(* The syntax tree (go/ast) with the type information of types.Info.       *)
(*                                                                         *)
(* Expressions are records with a kind k:                                  *)
(*   "nil"    the identifier nil                                           *)
(*   "ident"  an identifier; obj is the object it denotes (ObjectOf),      *)
(*            typ the object's type, value whether it has a constant value *)
(*   "lit"    a composite literal of type typ; elts are its elements, an   *)
(*            element without a key has key = NoKey                        *)
(*   "addr"   the unary expression &x                                      *)
(*   "call"   a call with result type typ; conv: it is a conversion T(x)    *)
(*   "sel"    the selector expression x.sel                                *)
(*   "basic"  a basic literal                                              *)
(* pos is the node's position (token.Pos): the path of the node in the     *)
(* file, so that two nodes have the same position only where go/ast gives  *)
(* them the same one (a selector expression starts where its operand       *)
(* starts).                                                                *)
(*                                                                         *)
(* Statements are records [k, tok, lhs, rhs]:                              *)
(*   "var"     a ValueSpec: lhs its Names, rhs its Values                  *)
(*   "assign"  an AssignStmt with token tok ("=" or ":=")                  *)
(*   "return"  a ReturnStmt: rhs its Results                               *)
(***************************************************************************)

NoKey == ""
NoPos == << >>

NilE == [k |-> "nil", pos |-> NoPos]
IdentE(obj, name, t) ==
  [k |-> "ident", name |-> name, obj |-> obj, typ |-> t, value |-> FALSE, pos |-> NoPos]
LitE(t, elts) == [k |-> "lit", typ |-> t, elts |-> elts, pos |-> NoPos]
AddrE(x) == [k |-> "addr", x |-> x, pos |-> NoPos]
CallE(t, args, conv) ==
  [k |-> "call", typ |-> t, args |-> args, conv |-> conv, pos |-> NoPos]
SelE(x, sel) == [k |-> "sel", x |-> x, sel |-> sel, pos |-> NoPos]
BasicE(t) == [k |-> "basic", typ |-> t, pos |-> NoPos]
KV(key, val) == [key |-> key, val |-> val]

VarS(names, values) == [k |-> "var", tok |-> "var", lhs |-> names, rhs |-> values]
AssignS(tok, lhs, rhs) == [k |-> "assign", tok |-> tok, lhs |-> lhs, rhs |-> rhs]
ReturnS(results) == [k |-> "return", tok |-> "return", lhs |-> << >>, rhs |-> results]

\* Place(e, p): the expression e written at position p.
RECURSIVE Place(_, _)
Place(e, p) ==
  CASE e.k = "lit" ->
         [e EXCEPT !.pos = p,
                   !.elts = [i \in 1..Len(e.elts) |->
                               KV(e.elts[i].key, Place(e.elts[i].val, p \o <<i>>))]]
    [] e.k = "addr" -> [e EXCEPT !.pos = p, !.x = Place(e.x, p \o <<0>>)]
    [] e.k = "call" ->
         [e EXCEPT !.pos = p,
                   !.args = [i \in 1..Len(e.args) |-> Place(e.args[i], p \o <<i>>)]]
    [] e.k = "sel" -> [e EXCEPT !.pos = p, !.x = Place(e.x, p)]
    [] OTHER -> [e EXCEPT !.pos = p]

PlaceStmt(s, i) ==
  [s EXCEPT !.lhs = [j \in 1..Len(s.lhs) |-> Place(s.lhs[j], <<i, 0, j>>)],
            !.rhs = [j \in 1..Len(s.rhs) |-> Place(s.rhs[j], <<i, 1, j>>)]]

\* A file: its statements in source order, each node at its position.
File(stmts) == [i \in 1..Len(stmts) |-> PlaceStmt(stmts[i], i)]

\* field.Type(), or <<>> when there is no field.
typeOfField(field) == IF field = {} THEN << >> ELSE (CHOOSE f \in field : TRUE).typ

\* The field type of x.sel, or <<>> when there is no such field.
FieldType(t, sel) == typeOfField(getFieldFromType(t, sel))

\* pass.TypesInfo.TypeOf
RECURSIVE TypeOf(_)
TypeOf(e) ==
  CASE e.k = "nil" -> <<"untyped nil">>
    [] e.k = "addr" -> <<"*">> \o TypeOf(e.x)
    [] e.k = "sel" -> FieldType(TypeOf(e.x), e.sel)
    [] OTHER -> e.typ

(***************************************************************************)
(* The state of one analysis pass.                                         *)
(***************************************************************************)

VARIABLES
  files,               \* the names of the files of the pass (pass.Files)
  prog,                \* the statements of the pass, in source order; they
                       \* are those of its first file that is not generated
  idx,                 \* the next node of the pre-order traversal of run()
  analyzedComposites,  \* the positions of the literals run() has marked
  diags,               \* the diagnostics reported so far, in order
  origin,              \* history: for each diagnostic, the index (in the
                       \* traversal) of the node whose visit reported it
  runs,                \* the number of the current call of run() on the pass
  previous,            \* history: the diagnostics of the previous call
  pending,             \* the calls the visit of a node has still to make,
                       \* when the visit is followed call by call
  walked,              \* the last node whose visit was followed call by call
  calls                \* the number of calls that visit has made so far

vars == <<files, prog, idx, analyzedComposites, diags, origin, runs, previous, pending,
          walked, calls>>

\* pass.Reportf(pos, format, args...): one diagnostic.  tmpl names the format
\* string, path is the dot-joined field path its placeholders spell (for the
\* two "variable used in" formats: the context, then the field), owner the
\* type the message names, name the variable the message names.
Diag(pos, tmpl, path, owner, name) ==
  [pos |-> pos, tmpl |-> tmpl, path |-> path, owner |-> owner, name |-> name]

\* fmt.Sprintf(format, args...) of a diagnostic: the text as the sequence of
\* the pieces of the format string and of the arguments, in order.  A field
\* path printed through '%s.%s' or through one '%s' is one argument piece; the
\* two "variable used in" formats print the context and the field apart.
Message(d) ==
  CASE d.tmpl = "NilAssign" ->
         << "nil assignment to non-optional message field '", d.path,
            "' in protobuf message '", d.owner, "'" >>
    [] d.tmpl = "NotInit" ->
         << "non-optional message field '", d.path,
            "' not initialized in protobuf message '", d.owner, "'" >>
    [] d.tmpl = "VarNil" ->
         << "variable '", d.name, "' used for field '", d.path, "' is nil",
            " (zero value)" >>
    [] d.tmpl = "UseNil" ->
         << "variable used in '", SubSeq(d.path, 1, Len(d.path) - 1),
            "' has nil in non-optional message field '", d.path[Len(d.path)],
            "' of type '", d.owner, "'" >>
    [] d.tmpl = "UseNotInit" ->
         << "variable used in '", SubSeq(d.path, 1, Len(d.path) - 1),
            "' has uninitialized non-optional message field '", d.path[Len(d.path)],
            "' of type '", d.owner, "'" >>

NoObj == ""
NoName == ""
NoType == << >>

RECURSIVE Flatten(_)
Flatten(ss) == IF ss = << >> THEN << >> ELSE Head(ss) \o Flatten(Tail(ss))

Max(S) == CHOOSE m \in S : \A n \in S : n <= m
Min(S) == CHOOSE m \in S : \A n \in S : m <= n

IsInterface(t) == t = <<"interface">>

\* The indices of the names of statement s that denote obj.
NamesOf(s, obj) ==
  { j \in 1..Len(s.lhs) : s.lhs[j].k = "ident" /\ s.lhs[j].obj = obj }

\* The statement the ast.Inspect search for a ValueSpec declaring obj ends
\* with (0: none).  Every match overwrites the previous one.
findValueSpec(obj) ==
  LET m == { i \in 1..Len(prog) : prog[i].k = "var" /\ NamesOf(prog[i], obj) # {} }
  IN IF m = {} THEN 0 ELSE Max(m)

\* The same for a short variable declaration with obj on its left.
findDefine(obj) ==
  LET m == { i \in 1..Len(prog) :
               prog[i].k = "assign" /\ prog[i].tok = ":=" /\ NamesOf(prog[i], obj) # {} }
  IN IF m = {} THEN 0 ELSE Max(m)

(***************************************************************************)
(* detector.go                                                             *)
(***************************************************************************)

RECURSIVE isNilValue(_)
RECURSIVE isNilVariable(_)

isNilValue(expr) ==
  IF expr.k = "nil" THEN TRUE
  ELSE IF expr.k = "call" /\ Len(expr.args) = 1 /\ expr.args[1].k = "nil" THEN TRUE
  ELSE IF expr.k = "ident" THEN isNilVariable(expr)
  ELSE IF expr.k = "addr" THEN isNilValue(expr.x)
  ELSE FALSE

\* isNilVariable taking a pointer variable without a declaration for nil.
isNilVariableWithoutDeclaration(ident) ==
  IF ident.obj = NoObj THEN FALSE
  ELSE IF ident.value THEN FALSE
  ELSE LET d == findValueSpec(ident.obj) IN
       IF d = 0 THEN IsPointer(ident.typ)
       ELSE IF Len(prog[d].rhs) = 0
            THEN IsPointer(ident.typ) \/ IsInterface(ident.typ)
            ELSE \E j \in 1..Len(prog[d].rhs) : isNilValue(prog[d].rhs[j])

isNilVariable(ident) ==
  IF ident.obj = NoObj THEN FALSE
  ELSE IF ident.value THEN FALSE
  ELSE LET d == findValueSpec(ident.obj) IN
       IF d = 0 THEN FALSE
       ELSE IF Len(prog[d].rhs) = 0
            THEN IsPointer(ident.typ) \/ IsInterface(ident.typ)
            ELSE \E j \in 1..Len(prog[d].rhs) : isNilValue(prog[d].rhs[j])

RECURSIVE validateCompositeLiteralMessageAtUse(_, _, _, _)
RECURSIVE validateMessageValueAtPos(_, _, _, _)
RECURSIVE validateVariableMessageAtPos(_, _, _, _)

validateCompositeLiteralMessageAtUse(lit, litType, fieldContext, reportPos) ==
  LET messageFields == getMessageFields(getStructType(litType))
      names == { messageFields[i].name : i \in 1..Len(messageFields) }
      initialized == { lit.elts[i].key : i \in 1..Len(lit.elts) } \ {NoKey}
      element(kv) ==
        IF kv.key = NoKey \/ kv.key \notin names THEN << >>
        ELSE IF isNilValue(kv.val)
        THEN << Diag(reportPos, "UseNil", fieldContext \o <<kv.key>>, litType, NoName) >>
        ELSE IF isProtobufMessageType(TypeOf(kv.val))
        THEN validateMessageValueAtPos(kv.val, TypeOf(kv.val),
                                       fieldContext \o <<kv.key>>, reportPos)
        ELSE << >>
      missing(field) ==
        IF field.name \in initialized THEN << >>
        ELSE << Diag(reportPos, "UseNotInit", fieldContext \o <<field.name>>, litType, NoName) >>
  IN IF ~hasStructType(litType) \/ messageFields = << >> THEN << >>
     ELSE Flatten([i \in 1..Len(lit.elts) |-> element(lit.elts[i])])
          \o Flatten([i \in 1..Len(messageFields) |-> missing(messageFields[i])])

validateMessageValueAtPos(expr, exprType, fieldContext, reportPos) ==
  CASE expr.k = "ident" ->
         validateVariableMessageAtPos(expr, exprType, fieldContext, reportPos)
    [] expr.k = "lit" ->
         validateCompositeLiteralMessageAtUse(expr, exprType, fieldContext, reportPos)
    [] expr.k = "addr" ->
         validateMessageValueAtPos(expr.x, exprType, fieldContext, reportPos)
    [] OTHER -> << >>

validateVariableMessageAtPos(ident, exprType, fieldContext, reportPos) ==
  IF ident.obj = NoObj THEN << >>
  ELSE LET d == findValueSpec(ident.obj)
           initializer(i) ==
             IF i > Len(prog[d].rhs) THEN << >>
             ELSE LET value == prog[d].rhs[i] IN
                  IF value.k = "lit"
                  THEN validateCompositeLiteralMessageAtUse(value, exprType,
                                                            fieldContext, reportPos)
                  ELSE IF value.k = "addr" /\ value.x.k = "lit"
                  THEN validateCompositeLiteralMessageAtUse(value.x, TypeOf(value.x),
                                                            fieldContext, reportPos)
                  ELSE << >>
       IN IF d = 0 THEN << >>
          ELSE IF Len(prog[d].rhs) = 0
          THEN IF IsPointer(exprType)
               THEN << Diag(reportPos, "VarNil", fieldContext, NoType, ident.name) >>
               ELSE << >>
          ELSE Flatten([i \in 1..Len(prog[d].lhs) |->
                          IF i \in NamesOf(prog[d], ident.obj) THEN initializer(i) ELSE << >>])

\* handleValidation reporting at the initializer instead of at the use.
handleValidationAtInitializer(value, exprType, fieldContext, reportPos) ==
  IF value.k = "lit"
  THEN validateCompositeLiteralMessageAtUse(value, TypeOf(value), fieldContext, value.pos)
  ELSE IF value.k = "addr" /\ value.x.k = "lit"
  THEN validateCompositeLiteralMessageAtUse(value.x, TypeOf(value.x), fieldContext, value.pos)
  ELSE << >>

handleValidation(value, exprType, fieldContext, reportPos) ==
  IF value.k = "lit"
  THEN validateCompositeLiteralMessageAtUse(value, TypeOf(value), fieldContext, reportPos)
  ELSE IF value.k = "addr" /\ value.x.k = "lit"
  THEN validateCompositeLiteralMessageAtUse(value.x, TypeOf(value.x), fieldContext, reportPos)
  ELSE << >>

validateVariableMessage(ident, exprType, fieldContext) ==
  IF ident.obj = NoObj THEN << >>
  ELSE LET declAssign == findDefine(ident.obj)
           decl == findValueSpec(ident.obj)
       IN IF declAssign # 0
          THEN LET i == Min(NamesOf(prog[declAssign], ident.obj)) IN
               IF i <= Len(prog[declAssign].rhs)
               THEN handleValidation(prog[declAssign].rhs[i], exprType,
                                     fieldContext, ident.pos)
               ELSE << >>
          ELSE IF decl = 0 THEN << >>
          ELSE IF Len(prog[decl].rhs) = 0
          THEN IF IsPointer(exprType)
               THEN << Diag(ident.pos, "VarNil", fieldContext, NoType, ident.name) >>
               ELSE << >>
          ELSE Flatten([i \in 1..Len(prog[decl].lhs) |->
                          IF i \in NamesOf(prog[decl], ident.obj) /\ i <= Len(prog[decl].rhs)
                          THEN handleValidation(prog[decl].rhs[i], exprType,
                                                fieldContext, ident.pos)
                          ELSE << >>])

RECURSIVE validateMessageValue(_, _, _)
RECURSIVE validateCompositeLiteralMessage(_, _, _)

validateMessageValue(expr, exprType, fieldContext) ==
  CASE expr.k = "ident" -> validateVariableMessage(expr, exprType, fieldContext)
    [] expr.k = "lit" -> validateCompositeLiteralMessage(expr, exprType, fieldContext)
    [] expr.k = "call" -> << >>
    [] expr.k = "addr" -> validateMessageValue(expr.x, exprType, fieldContext)
    [] expr.k = "sel" -> << >>
    [] OTHER -> << >>

validateCompositeLiteralMessage(lit, litType, fieldContext) ==
  LET messageFields == getMessageFields(getStructType(litType))
      names == { messageFields[i].name : i \in 1..Len(messageFields) }
      initialized == { lit.elts[i].key : i \in 1..Len(lit.elts) } \ {NoKey}
      element(kv) ==
        IF kv.key = NoKey \/ kv.key \notin names THEN << >>
        ELSE IF isNilValue(kv.val)
        THEN << Diag(kv.val.pos, "NilAssign", fieldContext \o <<kv.key>>, litType, NoName) >>
        ELSE IF isProtobufMessageType(TypeOf(kv.val))
        THEN validateMessageValue(kv.val, TypeOf(kv.val), fieldContext \o <<kv.key>>)
        ELSE << >>
      missing(field) ==
        IF field.name \in initialized THEN << >>
        ELSE << Diag(lit.pos, "NotInit", fieldContext \o <<field.name>>, litType, NoName) >>
  IN IF ~hasStructType(litType) \/ messageFields = << >> THEN << >>
     ELSE Flatten([i \in 1..Len(lit.elts) |-> element(lit.elts[i])])
          \o Flatten([i \in 1..Len(messageFields) |-> missing(messageFields[i])])

(***************************************************************************)
(* analyzer.go                                                             *)
(***************************************************************************)

\* checkAssignment: the diagnostics of one assignment statement.
checkAssignment(stmt) ==
  LET pair(i) ==
        LET lhs == stmt.lhs[i]
            rhs == stmt.rhs[i]
        IN IF lhs.k # "sel" THEN << >>
           ELSE LET baseType == Deref(TypeOf(lhs.x))
                    field == getFieldFromType(baseType, lhs.sel)
                IN IF TypeOf(lhs.x) = NoType THEN << >>
                   ELSE IF ~isResponseMessage(baseType) THEN << >>
                   ELSE IF field = {} THEN << >>
                   ELSE IF \E f \in field : ~isMessageField(f) THEN << >>
                   ELSE IF \E f \in field : isOptionalField(f) THEN << >>
                   ELSE IF isNilValue(rhs)
                   THEN << Diag(rhs.pos, "NilAssign", <<lhs.sel>>, baseType, NoName) >>
                   ELSE IF isProtobufMessageType(TypeOf(rhs))
                   THEN validateMessageValue(rhs, TypeOf(rhs), <<lhs.sel>>)
                   ELSE << >>
      n == IF Len(stmt.lhs) < Len(stmt.rhs) THEN Len(stmt.lhs) ELSE Len(stmt.rhs)
  IN Flatten([i \in 1..n |-> pair(i)])

\* checkCompositeLiteral: the diagnostics of one literal of a response type.
\* checkCompositeLiteral taking the fields of a literal written without
\* keys for initialized.
checkCompositeLiteralByPosition(lit, litType) ==
  LET messageFields == getMessageFields(getStructType(litType))
      names == { messageFields[i].name : i \in 1..Len(messageFields) }
      keyed == { lit.elts[i].key : i \in 1..Len(lit.elts) } \ {NoKey}
      initialized == IF lit.elts # << >> /\ keyed = { } THEN names ELSE keyed
      element(kv) ==
        IF kv.key = NoKey \/ kv.key \notin names THEN << >>
        ELSE IF isNilValue(kv.val)
        THEN << Diag(kv.val.pos, "NilAssign", <<kv.key>>, litType, NoName) >>
        ELSE IF isProtobufMessageType(TypeOf(kv.val))
        THEN validateMessageValue(kv.val, TypeOf(kv.val), <<kv.key>>)
        ELSE << >>
      missing(field) ==
        IF field.name \in initialized THEN << >>
        ELSE << Diag(lit.pos, "NotInit", <<field.name>>, litType, NoName) >>
  IN IF ~isResponseMessage(litType) THEN << >>
     ELSE IF ~hasStructType(litType) \/ messageFields = << >> THEN << >>
     ELSE Flatten([i \in 1..Len(lit.elts) |-> element(lit.elts[i])])
          \o Flatten([i \in 1..Len(messageFields) |-> missing(messageFields[i])])

\* checkCompositeLiteral with its two loops in the other order.
checkCompositeLiteralOmissionsFirst(lit, litType) ==
  LET messageFields == getMessageFields(getStructType(litType))
      names == { messageFields[i].name : i \in 1..Len(messageFields) }
      initialized == { lit.elts[i].key : i \in 1..Len(lit.elts) } \ {NoKey}
      element(kv) ==
        IF kv.key = NoKey \/ kv.key \notin names THEN << >>
        ELSE IF isNilValue(kv.val)
        THEN << Diag(kv.val.pos, "NilAssign", <<kv.key>>, litType, NoName) >>
        ELSE IF isProtobufMessageType(TypeOf(kv.val))
        THEN validateMessageValue(kv.val, TypeOf(kv.val), <<kv.key>>)
        ELSE << >>
      missing(field) ==
        IF field.name \in initialized THEN << >>
        ELSE << Diag(lit.pos, "NotInit", <<field.name>>, litType, NoName) >>
  IN IF ~isResponseMessage(litType) THEN << >>
     ELSE IF ~hasStructType(litType) \/ messageFields = << >> THEN << >>
     ELSE Flatten([i \in 1..Len(messageFields) |-> missing(messageFields[i])])
          \o Flatten([i \in 1..Len(lit.elts) |-> element(lit.elts[i])])

checkCompositeLiteral(lit, litType) ==
  LET messageFields == getMessageFields(getStructType(litType))
      names == { messageFields[i].name : i \in 1..Len(messageFields) }
      initialized == { lit.elts[i].key : i \in 1..Len(lit.elts) } \ {NoKey}
      element(kv) ==
        IF kv.key = NoKey \/ kv.key \notin names THEN << >>
        ELSE IF isNilValue(kv.val)
        THEN << Diag(kv.val.pos, "NilAssign", <<kv.key>>, litType, NoName) >>
        ELSE IF isProtobufMessageType(TypeOf(kv.val))
        THEN validateMessageValue(kv.val, TypeOf(kv.val), <<kv.key>>)
        ELSE << >>
      missing(field) ==
        IF field.name \in initialized THEN << >>
        ELSE << Diag(lit.pos, "NotInit", <<field.name>>, litType, NoName) >>
  IN IF ~isResponseMessage(litType) THEN << >>
     ELSE IF ~hasStructType(litType) \/ messageFields = << >> THEN << >>
     ELSE Flatten([i \in 1..Len(lit.elts) |-> element(lit.elts[i])])
          \o Flatten([i \in 1..Len(messageFields) |-> missing(messageFields[i])])

(***************************************************************************)
(* run(): the pre-order traversal of inspect.Preorder over the assignment  *)
(* statements, composite literals and return statements of the file.       *)
(***************************************************************************)

RECURSIVE LitsOf(_)
LitsOf(e) ==
  CASE e.k = "lit" ->
         << [kind |-> "CompositeLit", node |-> e] >>
         \o Flatten([i \in 1..Len(e.elts) |-> LitsOf(e.elts[i].val)])
    [] e.k = "addr" -> LitsOf(e.x)
    [] e.k = "call" -> Flatten([i \in 1..Len(e.args) |-> LitsOf(e.args[i])])
    [] e.k = "sel" -> LitsOf(e.x)
    [] OTHER -> << >>

StmtNodes(s) ==
  (IF s.k = "assign" THEN << [kind |-> "AssignStmt", node |-> s] >>
   ELSE IF s.k = "return" THEN << [kind |-> "ReturnStmt", node |-> s] >>
   ELSE << >>)
  \o Flatten([j \in 1..Len(s.lhs) |-> LitsOf(s.lhs[j])])
  \o Flatten([j \in 1..Len(s.rhs) |-> LitsOf(s.rhs[j])])

\* The nodes the node filter of run() selects, in visiting order.
Nodes == Flatten([i \in 1..Len(prog) |-> StmtNodes(prog[i])])

\* The loop of run() over pass.Files: is there a file whose name ends in
\* ".pb.go"?  A file name is the sequence of its base name and its suffix.
hasGenerated == \E i \in 1..Len(files) : HasSuffix(files[i], ".pb.go")

Report(ds) ==
  /\ diags' = diags \o ds
  /\ origin' = origin \o [i \in 1..Len(ds) |-> idx]

\* case *ast.AssignStmt
VisitAssignStmt ==
  /\ ~hasGenerated
  /\ idx <= Len(Nodes)
  /\ Nodes[idx].kind = "AssignStmt"
  /\ Report(checkAssignment(Nodes[idx].node))
  /\ idx' = idx + 1
  /\ UNCHANGED <<files, prog, analyzedComposites, runs, previous, pending, walked, calls>>

\* case *ast.CompositeLit
VisitCompositeLit ==
  /\ ~hasGenerated
  /\ idx <= Len(Nodes)
  /\ Nodes[idx].kind = "CompositeLit"
  /\ LET stmt == Nodes[idx].node IN
     IF stmt.pos \in analyzedComposites
     THEN /\ Report(<< >>)
          /\ UNCHANGED analyzedComposites
     ELSE /\ analyzedComposites' = analyzedComposites \cup {stmt.pos}
          /\ IF TypeOf(stmt) # NoType /\ isResponseMessage(TypeOf(stmt))
             THEN Report(checkCompositeLiteral(stmt, TypeOf(stmt)))
             ELSE Report(<< >>)
  /\ idx' = idx + 1
  /\ UNCHANGED <<files, prog, runs, previous, pending, walked, calls>>

\* The case for return statements as it would be if it did not mark the
\* literals it checks.
VisitReturnStmtWithoutMarking ==
  /\ ~hasGenerated
  /\ idx <= Len(Nodes)
  /\ Nodes[idx].kind = "ReturnStmt"
  /\ LET stmt == Nodes[idx].node
         fresh == { i \in 1..Len(stmt.rhs) :
                      stmt.rhs[i].k = "lit" /\ stmt.rhs[i].pos \notin analyzedComposites }
         result(i) ==
           IF i \in fresh /\ TypeOf(stmt.rhs[i]) # NoType /\ isResponseMessage(TypeOf(stmt.rhs[i]))
           THEN checkCompositeLiteral(stmt.rhs[i], TypeOf(stmt.rhs[i]))
           ELSE << >>
     IN Report(Flatten([i \in 1..Len(stmt.rhs) |-> result(i)]))
  /\ idx' = idx + 1
  /\ UNCHANGED <<files, prog, analyzedComposites, runs, previous, pending, walked, calls>>

\* case *ast.ReturnStmt
VisitReturnStmt ==
  /\ ~hasGenerated
  /\ idx <= Len(Nodes)
  /\ Nodes[idx].kind = "ReturnStmt"
  /\ LET stmt == Nodes[idx].node
         fresh == { i \in 1..Len(stmt.rhs) :
                      stmt.rhs[i].k = "lit" /\ stmt.rhs[i].pos \notin analyzedComposites }
         result(i) ==
           IF i \in fresh /\ TypeOf(stmt.rhs[i]) # NoType /\ isResponseMessage(TypeOf(stmt.rhs[i]))
           THEN checkCompositeLiteral(stmt.rhs[i], TypeOf(stmt.rhs[i]))
           ELSE << >>
     IN /\ analyzedComposites' = analyzedComposites \cup { stmt.rhs[i].pos : i \in fresh }
        /\ Report(Flatten([i \in 1..Len(stmt.rhs) |-> result(i)]))
  /\ idx' = idx + 1
  /\ UNCHANGED <<files, prog, runs, previous, pending, walked, calls>>

Next == VisitAssignStmt \/ VisitCompositeLit \/ VisitReturnStmt

\* run() with a generated file in the pass: `return nil, nil` before the
\* traversal begins.
ReturnForGenerated ==
  /\ hasGenerated
  /\ idx = 1
  /\ idx' = Len(Nodes) + 1
  /\ UNCHANGED <<files, prog, analyzedComposites, diags, origin, runs, previous, pending,
                 walked, calls>>

\* A pass of several files, generated ones among them.
PassNext == Next \/ ReturnForGenerated

\* The traversal has visited every node: run() returns.
Done == idx > Len(Nodes)

\* The number of calls of run() on the same pass.
Runs == 2

\* A second call of run() as it would be if analyzedComposites outlived the
\* call.
RunAgainKeepingComposites ==
  /\ Done
  /\ runs < Runs
  /\ runs' = runs + 1
  /\ previous' = diags
  /\ idx' = 1
  /\ diags' = << >>
  /\ origin' = << >>
  /\ UNCHANGED <<files, prog, analyzedComposites, pending, walked, calls>>

\* run() is called again on the unchanged pass: the traversal starts over
\* with a new analyzedComposites map, and reports to a new list.
RunAgain ==
  /\ Done
  /\ runs < Runs
  /\ runs' = runs + 1
  /\ previous' = diags
  /\ idx' = 1
  /\ analyzedComposites' = { }
  /\ diags' = << >>
  /\ origin' = << >>
  /\ UNCHANGED <<files, prog, pending, walked, calls>>

NextTwice == Next \/ RunAgain

(***************************************************************************)
(* The visit of a node, followed call by call.                             *)
(*                                                                         *)
(* A call is the function called, the syntax node it is called on and the  *)
(* type it is given.  For every function of the detector, the calls its    *)
(* body makes to the functions of the detector, in order; pending holds    *)
(* the calls that have not begun yet, the next one first.                  *)
(***************************************************************************)

CallOf(fn, node, typ) == [fn |-> fn, node |-> node, typ |-> typ]

\* The first n elements of a sequence.
Take(seq, n) == SubSeq(seq, 1, n)

isNilValueCalls(expr) ==
  IF expr.k = "nil" THEN << >>
  ELSE IF expr.k = "call" /\ Len(expr.args) = 1 /\ expr.args[1].k = "nil" THEN << >>
  ELSE IF expr.k = "ident" THEN << CallOf("isNilVariable", expr, NoType) >>
  ELSE IF expr.k = "addr" THEN << CallOf("isNilValue", expr.x, NoType) >>
  ELSE << >>

\* The loop over decl.Values returns at the first value that is nil.
valuesUntilNil(values) ==
  LET nils == { j \in 1..Len(values) : isNilValue(values[j]) }
  IN Take(values, IF nils = { } THEN Len(values) ELSE Min(nils))

isNilVariableCalls(ident) ==
  IF ident.obj = NoObj THEN << >>
  ELSE IF ident.value THEN << >>
  ELSE LET d == findValueSpec(ident.obj) IN
       IF d = 0 THEN << >>
       ELSE LET values == valuesUntilNil(prog[d].rhs)
            IN [j \in 1..Len(values) |-> CallOf("isNilValue", values[j], NoType)]

\* The calls of the loop over the elements of a literal: isNilValue on the
\* value of every message field, and the recursive validation (the function
\* fn) of a value that is not nil and of a message type.
elementCalls(lit, litType, fn) ==
  LET messageFields == getMessageFields(getStructType(litType))
      names == { messageFields[i].name : i \in 1..Len(messageFields) }
      valueCalls(val, valueType) ==
        << CallOf("isNilValue", val, NoType) >>
        \o (IF ~isNilValue(val) /\ isProtobufMessageType(valueType)
            THEN << CallOf(fn, val, valueType) >>
            ELSE << >>)
      element(kv) ==
        IF kv.key = NoKey \/ kv.key \notin names THEN << >>
        ELSE valueCalls(kv.val, TypeOf(kv.val))
  IN IF ~hasStructType(litType) \/ messageFields = << >> THEN << >>
     ELSE Flatten([i \in 1..Len(lit.elts) |-> element(lit.elts[i])])

validateCompositeLiteralMessageAtUseCalls(lit, litType) ==
  elementCalls(lit, litType, "validateMessageValueAtPos")

validateMessageValueAtPosCalls(expr, exprType) ==
  CASE expr.k = "ident" -> << CallOf("validateVariableMessageAtPos", expr, exprType) >>
    [] expr.k = "lit" -> << CallOf("validateCompositeLiteralMessageAtUse", expr, exprType) >>
    [] expr.k = "addr" -> << CallOf("validateMessageValueAtPos", expr.x, exprType) >>
    [] OTHER -> << >>

\* The call the function makes for one initializer of the declaration.
initializerCalls(value, exprType) ==
  IF value.k = "lit"
  THEN << CallOf("validateCompositeLiteralMessageAtUse", value, exprType) >>
  ELSE IF value.k = "addr" /\ value.x.k = "lit"
  THEN << CallOf("validateCompositeLiteralMessageAtUse", value.x, TypeOf(value.x)) >>
  ELSE << >>

declarationCalls(d, obj, exprType) ==
  IF d = 0 THEN << >>
  ELSE Flatten([i \in 1..Len(prog[d].lhs) |->
                  IF i \in NamesOf(prog[d], obj) /\ i <= Len(prog[d].rhs)
                  THEN initializerCalls(prog[d].rhs[i], exprType)
                  ELSE << >>])

\* validateVariableMessageAtPos as it would be if it also looked for a short
\* variable declaration, as validateVariableMessage does.
validateVariableMessageAtPosCallsWithDefine(ident, exprType) ==
  IF ident.obj = NoObj THEN << >>
  ELSE IF findDefine(ident.obj) # 0
  THEN declarationCalls(findDefine(ident.obj), ident.obj, exprType)
  ELSE declarationCalls(findValueSpec(ident.obj), ident.obj, exprType)

validateVariableMessageAtPosCalls(ident, exprType) ==
  IF ident.obj = NoObj THEN << >>
  ELSE declarationCalls(findValueSpec(ident.obj), ident.obj, exprType)

handleValidationCalls(value) ==
  IF value.k = "lit"
  THEN << CallOf("validateCompositeLiteralMessageAtUse", value, TypeOf(value)) >>
  ELSE IF value.k = "addr" /\ value.x.k = "lit"
  THEN << CallOf("validateCompositeLiteralMessageAtUse", value.x, TypeOf(value.x)) >>
  ELSE << >>

\* The calls for the declaration statement d of obj: handleValidation on
\* the initializers of the names that denote obj (all is FALSE: on that of
\* the first such name only).
handleValidationOf(d, obj, exprType, all) ==
  LET names == { i \in NamesOf(prog[d], obj) : all \/ i = Min(NamesOf(prog[d], obj)) }
  IN Flatten([i \in 1..Len(prog[d].lhs) |->
                IF i \in names /\ i <= Len(prog[d].rhs)
                THEN << CallOf("handleValidation", prog[d].rhs[i], exprType) >>
                ELSE << >>])

validateVariableMessageCalls(ident, exprType) ==
  IF ident.obj = NoObj THEN << >>
  ELSE IF findDefine(ident.obj) # 0
  THEN handleValidationOf(findDefine(ident.obj), ident.obj, exprType, FALSE)
  ELSE IF findValueSpec(ident.obj) = 0 THEN << >>
  ELSE handleValidationOf(findValueSpec(ident.obj), ident.obj, exprType, TRUE)

validateMessageValueCalls(expr, exprType) ==
  CASE expr.k = "ident" -> << CallOf("validateVariableMessage", expr, exprType) >>
    [] expr.k = "lit" -> << CallOf("validateCompositeLiteralMessage", expr, exprType) >>
    [] expr.k = "addr" -> << CallOf("validateMessageValue", expr.x, exprType) >>
    [] OTHER -> << >>

validateCompositeLiteralMessageCalls(lit, litType) ==
  elementCalls(lit, litType, "validateMessageValue")

checkCompositeLiteralCalls(lit, litType) ==
  IF ~isResponseMessage(litType) THEN << >>
  ELSE elementCalls(lit, litType, "validateMessageValue")

\* The calls checkAssignment makes for one pair of the assignment.
assignmentCalls(lhs, rhs, baseType, field) ==
  IF baseType = NoType THEN << >>
  ELSE IF ~isResponseMessage(Deref(baseType)) THEN << >>
  ELSE IF field = { } THEN << >>
  ELSE IF \E f \in field : ~isMessageField(f) \/ isOptionalField(f) THEN << >>
  ELSE << CallOf("isNilValue", rhs, NoType) >>
       \o (IF ~isNilValue(rhs) /\ isProtobufMessageType(TypeOf(rhs))
           THEN << CallOf("validateMessageValue", rhs, TypeOf(rhs)) >>
           ELSE << >>)

selectorCalls(lhs, rhs, baseType) ==
  assignmentCalls(lhs, rhs, baseType, getFieldFromType(Deref(baseType), lhs.sel))

checkAssignmentCalls(stmt) ==
  LET n == IF Len(stmt.lhs) < Len(stmt.rhs) THEN Len(stmt.lhs) ELSE Len(stmt.rhs)
  IN Flatten([i \in 1..n |->
                IF stmt.lhs[i].k # "sel" THEN << >>
                ELSE selectorCalls(stmt.lhs[i], stmt.rhs[i], TypeOf(stmt.lhs[i].x))])

\* The calls the callback of run() makes for a node of the traversal.
litCalls(lit, litType) ==
  IF lit.pos \in analyzedComposites THEN << >>
  ELSE IF litType # NoType /\ isResponseMessage(litType)
  THEN << CallOf("checkCompositeLiteral", lit, litType) >>
  ELSE << >>

runCalls(n) ==
  CASE n.kind = "AssignStmt" -> << CallOf("checkAssignment", n.node, NoType) >>
    [] n.kind = "CompositeLit" -> litCalls(n.node, TypeOf(n.node))
    [] n.kind = "ReturnStmt" ->
         Flatten([i \in 1..Len(n.node.rhs) |->
                    IF n.node.rhs[i].k = "lit"
                    THEN litCalls(n.node.rhs[i], TypeOf(n.node.rhs[i]))
                    ELSE << >>])

\* The calls a call makes.
callsOf(c) ==
  CASE c.fn = "isNilValue" -> isNilValueCalls(c.node)
    [] c.fn = "isNilVariable" -> isNilVariableCalls(c.node)
    [] c.fn = "validateMessageValue" -> validateMessageValueCalls(c.node, c.typ)
    [] c.fn = "validateVariableMessage" -> validateVariableMessageCalls(c.node, c.typ)
    [] c.fn = "handleValidation" -> handleValidationCalls(c.node)
    [] c.fn = "validateCompositeLiteralMessage" ->
         validateCompositeLiteralMessageCalls(c.node, c.typ)
    [] c.fn = "validateCompositeLiteralMessageAtUse" ->
         validateCompositeLiteralMessageAtUseCalls(c.node, c.typ)
    [] c.fn = "validateMessageValueAtPos" -> validateMessageValueAtPosCalls(c.node, c.typ)
    [] c.fn = "validateVariableMessageAtPos" ->
         validateVariableMessageAtPosCalls(c.node, c.typ)
    [] c.fn = "checkAssignment" -> checkAssignmentCalls(c.node)
    [] c.fn = "checkCompositeLiteral" -> checkCompositeLiteralCalls(c.node, c.typ)

\* The number of calls up to which the visit of one node is followed.
MaxCalls == 48

\* The callback of run() is entered for the next node of the traversal.
EnterNode ==
  /\ idx <= Len(Nodes)
  /\ walked < idx
  /\ pending = << >>
  /\ pending' = runCalls(Nodes[idx])
  /\ walked' = idx
  /\ calls' = 0
  /\ UNCHANGED <<files, prog, idx, analyzedComposites, diags, origin, runs, previous>>

\* The next call begins: the calls it makes come before the calls that were
\* pending already.
BeginCall ==
  /\ pending # << >>
  /\ calls < MaxCalls
  /\ pending' = callsOf(Head(pending)) \o Tail(pending)
  /\ calls' = calls + 1
  /\ UNCHANGED <<files, prog, idx, analyzedComposites, diags, origin, runs, previous, walked>>

\* Every call of the visit has returned: the callback returns, with the
\* diagnostics of the visit reported.
LeaveNode ==
  /\ walked = idx
  /\ pending = << >>
  /\ Next

WalkNext == EnterNode \/ BeginCall \/ LeaveNode

(***************************************************************************)
(* The files the pass is run on.                                           *)
(*                                                                         *)
(* Every file is well-typed Go over the Schema: literals nest as deep as   *)
(* MaxDepth, a message-typed field is left out or set to nil, to the       *)
(* result of a call, to a variable or to a literal, and a literal may set  *)
(* one field that is not a message field.                                  *)
(***************************************************************************)

\* The nesting depth of the literals of a file.
MaxDepth == 3

Ptr(n) == <<"*", n>>

\* The fields a literal of type n can set to a message value.
MsgPtrFields(n) ==
  SelectSeq(Schema[n].fields,
            LAMBDA f : /\ f.exported
                       /\ Len(f.typ) = 2 /\ f.typ[1] = "*"
                       /\ f.typ[2] \in NamedTypes /\ Schema[f.typ[2]].proto)

\* The elements a literal of type n sets besides its message values.
Extras(n) ==
  CASE n = "UserResponse" -> { KV("Manager", NilE), KV("RelatedUsers", NilE) }
    [] n = "BatchResult" -> { KV("Errors", NilE) }
    [] n = "StatusReply" -> { KV("Code", BasicE(<<"int32">>)) }
    [] n = "User" -> { KV("Name", BasicE(<<"string">>)), KV("Nickname", NilE), KV("Meta", NilE) }
    [] n = "Address" -> { KV("Street", BasicE(<<"string">>)), KV("Apartment", NilE) }
    [] OTHER -> { }

\* f(), (*T)(nil) and f(nil) are all call expressions.
Opaque(t) == CallE(t, << >>, FALSE)
TypedNil(t) == CallE(t, << NilE >>, TRUE)
OpaqueNil(t) == CallE(t, << NilE >>, FALSE)

Leaves(t) == { NilE, Opaque(t) }
RichLeaves(t) == { NilE, Opaque(t), TypedNil(t), OpaqueNil(t) }

RECURSIVE Lits(_, _)
RECURSIVE EltSeqs(_, _, _)

\* The values for a field of type t = *n, with literals of depth d at most.
FieldVals(t, d) ==
  Leaves(t) \cup (IF d > 0 THEN { AddrE(l) : l \in Lits(t[2], d) } ELSE { })

EltSeqs(fs, i, d) ==
  IF i > Len(fs) THEN { << >> }
  ELSE LET rest == EltSeqs(fs, i + 1, d) IN
       rest \cup { << KV(fs[i].name, v) >> \o r : v \in FieldVals(fs[i].typ, d), r \in rest }

\* The literals of type n of depth d at most (d >= 1).
Lits(n, d) ==
  { LitE(<<n>>, es \o x) :
      es \in EltSeqs(MsgPtrFields(n), 1, d - 1),
      x \in { << >> } \cup { << kv >> : kv \in Extras(n) } }

Var(name, t) == IdentE(name, name, t)
Blank == IdentE(NoObj, "_", NoType)

\* The ways an identifier of type t is bound: a parameter (no statement), a
\* var declaration without or with an initializer, a short declaration.
Decls(id, inits) ==
  { << >>, << VarS(<< id >>, << >>) >> }
  \cup { << VarS(<< id >>, << v >>) >> : v \in inits \cup { NilE } }
  \cup { << AssignS(":=", << id >>, << v >>) >> : v \in inits }

user == Var("user", Ptr("User"))
addr == Var("addr", Ptr("Address"))
response == Var("response", Ptr("UserResponse"))
reply == Var("reply", <<"StatusReply">>)

UserInits(d) == { Opaque(Ptr("User")), TypedNil(Ptr("User")) }
                \cup { AddrE(l) : l \in Lits("User", d) }
AddrInits(d) == { Opaque(Ptr("Address")), TypedNil(Ptr("Address")) }
                \cup { AddrE(l) : l \in Lits("Address", d) }

Now == Opaque(Ptr("Timestamp"))

\* _ = &UserResponse{...} with everything written inline.
InlineFiles ==
  { << AssignS("=", << Blank >>, << AddrE(l) >>) >> : l \in Lits("UserResponse", MaxDepth) }

\* The same with conversions and calls that take nil.
RichFiles ==
  { << AssignS("=", << Blank >>,
               << AddrE(LitE(<<"UserResponse">>,
                             << KV("User", v), KV("LastLogin", w) >>)) >>) >> :
      v \in RichLeaves(Ptr("User")), w \in RichLeaves(Ptr("Timestamp")) }

\* return StatusReply{...} / reply := StatusReply{...}; return reply
ReturnFiles ==
  { << ReturnS(<< l >>) >> : l \in Lits("StatusReply", MaxDepth - 1) }
  \cup { << AssignS(":=", << reply >>, << l >>), ReturnS(<< reply >>) >> :
           l \in Lits("StatusReply", 1) }
  \cup { << ReturnS(<< AddrE(l), NilE >>) >> : l \in Lits("UserResponse", 1) }

\* user bound one way or another, then used in a response literal.
VariableFiles ==
  { d \o << AssignS("=", << Blank >>,
                    << AddrE(LitE(<<"UserResponse">>,
                                  << KV("User", user), KV("LastLogin", t) >>)) >>) >> :
      d \in Decls(user, UserInits(MaxDepth - 1)), t \in Leaves(Ptr("Timestamp")) }

\* addr bound one way or another and used in a User literal, which is used
\* in a response literal directly or through the variable user.
userOfAddr == AddrE(LitE(<<"User">>, << KV("Address", addr) >>))

ChainFiles ==
  { d \o u \o << AssignS("=", << Blank >>,
                         << AddrE(LitE(<<"UserResponse">>,
                                       << KV("User", v), KV("LastLogin", Now) >>)) >>) >> :
      d \in Decls(addr, AddrInits(MaxDepth - 2)),
      u \in { << VarS(<< user >>, << userOfAddr >>) >>,
              << AssignS(":=", << user >>, << userOfAddr >>) >> },
      v \in { user } }
  \cup
  { d \o << AssignS("=", << Blank >>,
                    << AddrE(LitE(<<"UserResponse">>,
                                  << KV("User", userOfAddr), KV("LastLogin", Now) >>)) >>) >> :
      d \in Decls(addr, AddrInits(MaxDepth - 2)) }

\* Assignments to the fields of a response, of a nested message and of a
\* message that is not a response.
AssignFiles ==
  { << AssignS("=", << SelE(response, "User") >>, << v >>) >> :
      v \in RichLeaves(Ptr("User")) \cup { AddrE(l) : l \in Lits("User", MaxDepth - 1) } }
  \cup { d \o << AssignS("=", << SelE(response, "User") >>, << user >>) >> :
           d \in Decls(user, UserInits(MaxDepth - 2)) }
  \cup { << AssignS("=", << SelE(response, f) >>, << NilE >>) >> :
           f \in { "LastLogin", "Manager", "RelatedUsers" } }
  \cup { << AssignS("=", << SelE(response, "User"), SelE(response, "LastLogin") >>,
                    << v, w >>) >> :
           v \in Leaves(Ptr("User")), w \in Leaves(Ptr("Timestamp")) }
  \cup { << AssignS("=", << SelE(SelE(response, "User"), "Address") >>, << v >>) >> :
           v \in Leaves(Ptr("Address")) \cup { AddrE(l) : l \in Lits("Address", 1) } }
  \cup { << AssignS("=", << SelE(SelE(response, "User"), f) >>, << v >>) >> :
           f \in { "Name" }, v \in { BasicE(<<"string">>) } }
  \cup { << AssignS("=", << SelE(user, "Address") >>, << v >>) >> :
           v \in Leaves(Ptr("Address")) \cup { AddrE(l) : l \in Lits("Address", 1) } }
  \cup { << AssignS("=", << SelE(reply, f) >>, << v >>) >> :
           f \in { "Address" }, v \in Leaves(Ptr("Address")) }
  \cup { << AssignS("=", << SelE(reply, "Code") >>, << BasicE(<<"int32">>) >>) >> }

\* Literals of messages that are not responses, never used in a response.
PlainFiles ==
  { << AssignS(":=", << user >>, << AddrE(l) >>) >> : l \in Lits("User", MaxDepth - 1) }
  \cup { << ReturnS(<< l >>) >> : l \in Lits("Address", 1) }
  \cup { << AssignS("=", << Blank >>, << AddrE(l) >>) >> : l \in Lits("ResponseInfo", 1) }

\* _ = &ProfileResponse{...} and assignments to the fields of a profile: the
\* fields are of well-known types and of scalar wrapper types.
profile == Var("profile", Ptr("ProfileResponse"))

ProfileFiles ==
  { << AssignS("=", << Blank >>, << AddrE(l) >>) >> : l \in Lits("ProfileResponse", 2) }
  \cup UNION { { << AssignS("=", << SelE(profile, f.name) >>, << v >>) >> :
                    v \in Leaves(f.typ) } :
                f \in { Schema["ProfileResponse"].fields[i] : i \in 1..4 } }

\* Literals of the record types that refer to themselves (Category) and to
\* each other (Team, Member), written inline, and a variable that is bound
\* to such a literal and bound again, in the same scope, to a literal that
\* uses the variable:  category, ok := &Category{Parent: category}, true
category == Var("category", Ptr("Category"))
listing == Var("listing", Ptr("CategoryReply"))
ok == Var("ok", <<"bool">>)
True == [IdentE("true", "true", <<"bool">>) EXCEPT !.value = TRUE]

categoryOfCategory == AddrE(LitE(<<"Category">>, << KV("Parent", category) >>))

CategoryDecls ==
  { << VarS(<< category >>, << >>) >> }
  \cup { << VarS(<< category >>, << AddrE(LitE(<<"Category">>, << KV("Parent", v) >>)) >>) >> :
           v \in Leaves(Ptr("Category")) }
  \cup { << AssignS(":=", << category >>,
                    << AddrE(LitE(<<"Category">>, << KV("Parent", v) >>)) >>) >> :
           v \in Leaves(Ptr("Category")) }

CycleFiles ==
  { << AssignS("=", << Blank >>, << AddrE(l) >>) >> : l \in Lits("CategoryReply", MaxDepth) }
  \cup
  { d \o r \o u :
      d \in CategoryDecls,
      r \in { << >>, << AssignS(":=", << category, ok >>, << categoryOfCategory, True >>) >> },
      u \in { << AssignS("=", << Blank >>,
                         << AddrE(LitE(<<"CategoryReply">>,
                                       << KV("Category", category),
                                          KV("Team", Opaque(Ptr("Team"))) >>)) >>) >>,
              << AssignS("=", << SelE(listing, "Category") >>, << category >>) >> } }

\* A response literal as the value of a field of another response.
NestedFiles ==
  { << AssignS("=", << Blank >>, << AddrE(l) >>) >> : l \in Lits("BatchResult", 2) }
  \cup
  { << AssignS("=", << Blank >>,
               << AddrE(LitE(<<"BatchResult">>,
                    << KV("Response",
                          AddrE(LitE(<<"UserResponse">>,
                            << KV("User",
                                  AddrE(LitE(<<"User">>,
                                    << KV("Address",
                                          AddrE(LitE(<<"Address">>,
                                                     << KV("Location", v) >>))) >>))),
                               KV("LastLogin", Now) >>))) >>)) >>) >> :
      v \in Leaves(Ptr("Location")) }

\* A variable of a message type itself (not a pointer), bound one way or
\* another, whose address is the value of a required field: of a response
\* (record), or of a user bound to a variable that the response uses (place).
record == Var("record", <<"User">>)
place == Var("place", <<"Address">>)

ValueDecls(id, inits) ==
  { << >>, << VarS(<< id >>, << >>) >> }
  \cup { << VarS(<< id >>, << v >>) >> : v \in inits }
  \cup { << AssignS(":=", << id >>, << v >>) >> : v \in inits }

ValueFiles ==
  { d \o << AssignS("=", << Blank >>,
                    << AddrE(LitE(<<"UserResponse">>,
                                  << KV("User", AddrE(record)), KV("LastLogin", t) >>)) >>) >> :
      d \in ValueDecls(record, Lits("User", 1)), t \in Leaves(Ptr("Timestamp")) }
  \cup
  { d \o << AssignS("=", << SelE(response, "User") >>, << AddrE(record) >>) >> :
      d \in ValueDecls(record, Lits("User", 1)) }
  \cup
  { d \o << AssignS(":=", << user >>,
                    << AddrE(LitE(<<"User">>, << KV("Address", AddrE(place)) >>)) >>),
            AssignS("=", << Blank >>,
                    << AddrE(LitE(<<"UserResponse">>,
                                  << KV("User", user), KV("LastLogin", Now) >>)) >>) >> :
      d \in ValueDecls(place, Lits("Address", 1)) }

\* A variable bound to another variable, or to the address of one, and used
\* for a required field of a response.
alias == Var("alias", Ptr("User"))

AliasFiles ==
  { d \o a \o << u >> :
      d \in { << VarS(<< user >>, << AddrE(l) >>) >> : l \in Lits("User", 1) }
             \cup { << AssignS(":=", << user >>, << AddrE(l) >>) >> : l \in Lits("User", 1) },
      a \in { << VarS(<< alias >>, << user >>) >>,
              << AssignS(":=", << alias >>, << user >>) >> },
      u \in { AssignS("=", << SelE(response, "User") >>, << alias >>),
              AssignS("=", << Blank >>,
                      << AddrE(LitE(<<"UserResponse">>,
                                    << KV("User", alias), KV("LastLogin", Now) >>)) >>) } }
  \cup
  { d \o a \o << AssignS("=", << SelE(response, "User") >>, << alias >>) >> :
      d \in { << VarS(<< record >>, << l >>) >> : l \in Lits("User", 1) }
             \cup { << AssignS(":=", << record >>, << l >>) >> : l \in Lits("User", 1) },
      a \in { << VarS(<< alias >>, << AddrE(record) >>) >>,
              << AssignS(":=", << alias >>, << AddrE(record) >>) >> } }

\* A response literal that gives its optional field Manager (of type **User)
\* the address of a variable bound to a user literal.
manager == Var("manager", Ptr("User"))

OptionalFiles ==
  { << d, AssignS("=", << Blank >>,
                  << AddrE(LitE(<<"UserResponse">>,
                                << KV("User", Opaque(Ptr("User"))), KV("LastLogin", Now),
                                   KV("Manager", AddrE(manager)) >>)) >>) >> :
      d \in { VarS(<< manager >>, << AddrE(l) >>) : l \in Lits("User", 1) }
             \cup { AssignS(":=", << manager >>, << AddrE(l) >>) : l \in Lits("User", 1) } }

\* var user, spare *User = v, w (in both orders of the names), then user
\* used for a required field of a response.
spare == Var("spare", Ptr("User"))

SiblingFiles ==
  { << d, u >> :
      d \in { VarS(<< user, spare >>, << v, w >>) :
                v \in { Opaque(Ptr("User")), NilE }, w \in { Opaque(Ptr("User")), NilE } }
             \cup { VarS(<< spare, user >>, << w, v >>) :
                      v \in { Opaque(Ptr("User")), NilE }, w \in { Opaque(Ptr("User")), NilE } },
      u \in { AssignS("=", << SelE(response, "User") >>, << user >>),
              AssignS("=", << Blank >>,
                      << AddrE(LitE(<<"UserResponse">>,
                                    << KV("User", user), KV("LastLogin", Now) >>)) >>) } }

\* Literals written without keys: StatusReply{v, 0} returned, &CategoryReply{v, w},
\* and an Address written without keys as the value of a field with a key.
Positional(v) == KV(NoKey, v)

PositionalFiles ==
  { << ReturnS(<< LitE(<<"StatusReply">>,
                       << Positional(v), Positional(BasicE(<<"int32">>)) >>) >>) >> :
      v \in Leaves(Ptr("Address")) \cup { AddrE(l) : l \in Lits("Address", 1) } }
  \cup
  { << AssignS("=", << Blank >>,
               << AddrE(LitE(<<"CategoryReply">>, << Positional(v), Positional(w) >>)) >>) >> :
      v \in Leaves(Ptr("Category")), w \in Leaves(Ptr("Team")) }
  \cup
  { << ReturnS(<< LitE(<<"StatusReply">>,
         << KV("Address",
               AddrE(LitE(<<"Address">>,
                          << Positional(BasicE(<<"string">>)), Positional(v),
                             Positional(NilE), Positional(Opaque(<<"[2]", "*", "Location">>)) >>))) >>) >>) >> :
      v \in Leaves(Ptr("Location")) }

Files ==
  { File(f) : f \in InlineFiles \cup RichFiles \cup ReturnFiles \cup VariableFiles \cup ChainFiles
                    \cup AssignFiles \cup PlainFiles \cup NestedFiles \cup ProfileFiles
                    \cup CycleFiles \cup ValueFiles \cup AliasFiles
                    \cup OptionalFiles \cup SiblingFiles \cup PositionalFiles }

HandlerGo == <<"handler", ".go">>
UserPbGo == <<"user", ".pb.go">>

Init ==
  /\ files = << HandlerGo >>
  /\ prog \in Files
  /\ idx = 1
  /\ analyzedComposites = { }
  /\ diags = << >>
  /\ origin = << >>
  /\ runs = 1
  /\ previous = << >>
  /\ pending = << >>
  /\ walked = 0
  /\ calls = 0

Spec == Init /\ [][Next]_vars

\* The passes of one or two files, the second file generated or the first.
Passes == { << HandlerGo >>, << HandlerGo, UserPbGo >>, << UserPbGo, HandlerGo >> }

InitPass ==
  /\ files \in Passes
  /\ prog \in { File(f) : f \in InlineFiles \cup AssignFiles \cup ReturnFiles }
  /\ idx = 1
  /\ analyzedComposites = { }
  /\ diags = << >>
  /\ origin = << >>
  /\ runs = 1
  /\ previous = << >>
  /\ pending = << >>
  /\ walked = 0
  /\ calls = 0

PassSpec == InitPass /\ [][PassNext]_vars

\* The pass analysed more than once.
TwiceSpec == Init /\ [][NextTwice]_vars

\* The pass analysed with every visit followed call by call.
WalkSpec == Init /\ [][WalkNext]_vars

TypeOK ==
  /\ files \in Passes
  /\ idx \in 1..(Len(Nodes) + 1)
  /\ Len(origin) = Len(diags)
  /\ runs \in 1..Runs
  /\ runs = 1 => previous = << >>
  /\ walked \in 0..idx
  /\ calls \in 0..MaxCalls
  /\ \A i \in 1..Len(pending) :
       pending[i].fn \in {"isNilValue", "isNilVariable", "validateMessageValue",
                          "validateVariableMessage", "handleValidation",
                          "validateCompositeLiteralMessage",
                          "validateCompositeLiteralMessageAtUse",
                          "validateMessageValueAtPos", "validateVariableMessageAtPos",
                          "checkAssignment", "checkCompositeLiteral"}
  /\ \A i \in 1..Len(diags) :
       diags[i].tmpl \in {"NilAssign", "NotInit", "VarNil", "UseNil", "UseNotInit"}

(***************************************************************************)
(* The vocabulary of the properties: the classification of fields, the     *)
(* kinds of diagnostics and the shape of the file, read off the schema and *)
(* the syntax tree directly.                                               *)
(***************************************************************************)

CollectionConstructors == {"[]", "[2]", "map"}
IsCollection(t) == Head(t) \in CollectionConstructors
IsDoubleIndirection(t) == Len(t) > 2 /\ t[1] = "*" /\ t[2] = "*"
IsRecordCapable(t) ==
  LET u == IF Head(t) = "*" THEN Tail(t) ELSE t
  IN Len(u) = 1 /\ u[1] \in NamedTypes /\ Schema[u[1]].proto

\* The registry of wrapper types, and the origins of the well-known types.
WrapperNames ==
  {"StringValue", "Int32Value", "Int64Value", "UInt32Value", "UInt64Value",
   "FloatValue", "DoubleValue", "BoolValue", "BytesValue"}
WellKnownOrigins ==
  { <<"google.golang.org", "protobuf", "types", "known">>,
    <<"google.golang.org", "genproto", "googleapis", "type">> }
ElementName(t) == IF Head(t) = "*" THEN t[2] ELSE t[1]
IsWellKnown(t) ==
  \E o \in WellKnownOrigins :
    LET pkg == Schema[ElementName(t)].pkg
    IN Len(pkg) > Len(o) /\ SubSeq(pkg, 1, Len(o)) = o

\* Section 4.1 of the specification, rule by rule; "Wrapper" is the Scalar
\* of rule 4.
ClassOf(f) ==
  IF IsCollection(f.typ) \/ IsDoubleIndirection(f.typ) THEN "OptionalRecord"
  ELSE IF ~IsRecordCapable(f.typ) THEN "Scalar"
  ELSE IF ElementName(f.typ) \in WrapperNames THEN "Wrapper"
  ELSE "RequiredRecord"

Classify(f) == IF ClassOf(f) = "Wrapper" THEN "Scalar" ELSE ClassOf(f)

RequiredNames(n) ==
  { Schema[n].fields[i].name : i \in { j \in 1..Len(Schema[n].fields) :
        /\ Schema[n].fields[j].exported
        /\ Classify(Schema[n].fields[j]) = "RequiredRecord" } }

IsRootName(n) ==
  /\ Schema[n].proto
  /\ Schema[n].words[Len(Schema[n].words)] \in {"Response", "Reply", "Result"}

\* A Root Type, or a pointer to one.
IsRootType(t) ==
  /\ Len(t) > 0
  /\ LET u == IF t[1] = "*" THEN Tail(t) ELSE t
     IN Len(u) = 1 /\ u[1] \in NamedTypes /\ IsRootName(u[1])

ExplicitNull == {"NilAssign", "UseNil"}
ImplicitNull == {"VarNil"}
UninitializedRequiredField == {"NotInit", "UseNotInit"}

Last(p) == p[Len(p)]

\* The composite literals of the file, and those of a Root Type.
AllLits == { Nodes[i].node : i \in { j \in 1..Len(Nodes) : Nodes[j].kind = "CompositeLit" } }
RootLits == { c \in AllLits : Len(c.typ) = 1 /\ c.typ[1] \in NamedTypes /\ IsRootName(c.typ[1]) }
Assignments == { Nodes[i].node : i \in { j \in 1..Len(Nodes) : Nodes[j].kind = "AssignStmt" } }

Keys(c) == { c.elts[i].key : i \in 1..Len(c.elts) } \ {NoKey}
\* The values the literal c gives to the field named f.
ValuesOf(c, f) == { c.elts[i].val : i \in { j \in 1..Len(c.elts) : c.elts[j].key = f } }

\* The diagnostics (as indices) at a position.
At(pos) == { i \in 1..Len(diags) : diags[i].pos = pos }
OfKind(kinds) == { i \in 1..Len(diags) : diags[i].tmpl \in kinds }
ForField(f) == { i \in 1..Len(diags) : Last(diags[i].path) = f }

\* The statements that bind the object of an identifier, and the
\* initializers they give it.
Bindings(id) ==
  { i \in 1..Len(prog) :
      /\ (prog[i].k = "var" \/ (prog[i].k = "assign" /\ prog[i].tok = ":="))
      /\ \E j \in 1..Len(prog[i].lhs) :
           prog[i].lhs[j].k = "ident" /\ prog[i].lhs[j].obj = id.obj }
Initializers(id) ==
  UNION { { prog[i].rhs[j] :
              j \in { h \in 1..Len(prog[i].rhs) :
                        h <= Len(prog[i].lhs) /\ prog[i].lhs[h].k = "ident"
                        /\ prog[i].lhs[h].obj = id.obj } } :
          i \in Bindings(id) }

(***************************************************************************)
(* C1.  For every composite literal of a Root Type, the scan reports       *)
(* exactly one UninitializedRequiredField diagnostic for each required     *)
(* field without a keyed element, at the literal's position, and none for  *)
(* a field that has one.                                                   *)
(***************************************************************************)
C1_OnePerOmittedField ==
  Done =>
    \A c \in RootLits : \A f \in RequiredNames(c.typ[1]) :
      Cardinality(At(c.pos) \cap OfKind(UninitializedRequiredField) \cap ForField(f))
        = (IF f \in Keys(c) THEN 0 ELSE 1)

(***************************************************************************)
(* C2.  For every required field of a Root Type set to the nil literal, by *)
(* a field assignment or by a keyed element of a literal of the Root Type, *)
(* the scan reports exactly one ExplicitNull diagnostic; it is at the nil  *)
(* and its path is the field name.                                         *)
(***************************************************************************)
C2_OnePerExplicitNil ==
  Done =>
    /\ \A c \in RootLits : \A f \in RequiredNames(c.typ[1]) : \A v \in ValuesOf(c, f) :
         v.k = "nil" =>
           /\ Cardinality(At(v.pos) \cap OfKind(ExplicitNull)) = 1
           /\ \A i \in At(v.pos) \cap OfKind(ExplicitNull) : diags[i].path = <<f>>
    /\ \A s \in Assignments : \A j \in 1..Len(s.lhs) :
         LET lhs == s.lhs[j]
             base == IF lhs.k = "sel" THEN TypeOf(lhs.x) ELSE NoType
         IN ( /\ lhs.k = "sel" /\ j <= Len(s.rhs) /\ s.rhs[j].k = "nil"
              /\ Len(base) = 2 /\ base[1] = "*" /\ base[2] \in NamedTypes
              /\ IsRootName(base[2]) /\ lhs.sel \in RequiredNames(base[2]) )
            => /\ Cardinality(At(s.rhs[j].pos) \cap OfKind(ExplicitNull)) = 1
               /\ \A i \in At(s.rhs[j].pos) \cap OfKind(ExplicitNull) :
                    diags[i].path = <<lhs.sel>>

(***************************************************************************)
(* C3.  A variable declared without an initializer, of pointer type, that  *)
(* is assigned into a required field of a Root Type gets exactly one       *)
(* ImplicitNull diagnostic at the use, naming the variable and the field,  *)
(* and no ExplicitNull diagnostic.                                         *)
(***************************************************************************)
DeclaredWithoutInitializer(id) ==
  /\ id.k = "ident"
  /\ Bindings(id) # { }
  /\ \A i \in Bindings(id) : prog[i].k = "var" /\ prog[i].rhs = << >>

\* The uses of a value for a required field of a Root Type: <<value, field>>.
RootFieldUses ==
  UNION { UNION { { <<v, f>> : v \in ValuesOf(c, f) } : f \in RequiredNames(c.typ[1]) } :
          c \in RootLits }
  \cup
  UNION { { <<s.rhs[j], s.lhs[j].sel>> :
              j \in { h \in 1..Len(s.lhs) :
                        /\ h <= Len(s.rhs) /\ s.lhs[h].k = "sel"
                        /\ LET base == TypeOf(s.lhs[h].x) IN
                           /\ IsRootType(base)
                           /\ s.lhs[h].sel \in RequiredNames(Last(base)) } } :
          s \in Assignments }

C3_ImplicitNullForNilVariable ==
  Done =>
    \A u \in RootFieldUses :
      (DeclaredWithoutInitializer(u[1]) /\ u[1].typ[1] = "*") =>
        /\ Cardinality(At(u[1].pos) \cap OfKind(ImplicitNull)) = 1
        /\ \A i \in At(u[1].pos) \cap OfKind(ImplicitNull) :
             diags[i].name = u[1].name /\ diags[i].path = <<u[2]>>
        /\ At(u[1].pos) \cap OfKind(ExplicitNull) = { }

(***************************************************************************)
(* C4.  A response literal takes a required field from a variable bound to *)
(* a literal, which takes a required field from a variable bound to a      *)
(* literal, which sets a required field to nil: whichever way the two      *)
(* variables are bound (var or :=), the scan reports one diagnostic with   *)
(* the three-segment path at the place the first variable is used.         *)
(***************************************************************************)
\* The literals an identifier is bound to (directly or under &).
BoundLits(id) ==
  IF id.k # "ident" THEN { }
  ELSE { e \in AllLits :
           \E v \in Initializers(id) : v = e \/ (v.k = "addr" /\ v.x = e) }

C4_ChainThroughTwoVariables ==
  Done =>
    \A c \in RootLits : \A f1 \in RequiredNames(c.typ[1]) : \A v1 \in ValuesOf(c, f1) :
    \A l1 \in BoundLits(v1) : \A f2 \in RequiredNames(l1.typ[1]) : \A v2 \in ValuesOf(l1, f2) :
    \A l2 \in BoundLits(v2) : \A f3 \in RequiredNames(l2.typ[1]) : \A v3 \in ValuesOf(l2, f3) :
      v3.k = "nil" =>
        Cardinality({ i \in At(v1.pos) : diags[i].path = <<f1, f2, f3>> }) = 1

(***************************************************************************)
(* C5.  A Root-Type literal sets a required field to a literal of a record *)
(* type that is not a Root Type, which sets a required field to another    *)
(* such literal, which sets a required field to nil: the whole scan        *)
(* reports exactly one diagnostic at that nil, its path is the three field *)
(* names from the root, and no diagnostic inside the literal has the       *)
(* one-segment or the two-segment path.                                    *)
(***************************************************************************)
\* The literal a value is written as: the value itself, or the operand of &.
Direct(v) ==
  IF v.k = "lit" THEN { v }
  ELSE IF v.k = "addr" /\ v.x.k = "lit" THEN { v.x }
  ELSE { }

IsPrefix(p, q) == Len(p) <= Len(q) /\ SubSeq(q, 1, Len(p)) = p

\* The diagnostics (as indices) at the positions inside an expression.
Within(e) == { i \in 1..Len(diags) : IsPrefix(e.pos, diags[i].pos) }

NonRootLit(l) ==
  Len(l.typ) = 1 /\ l.typ[1] \in NamedTypes /\ Schema[l.typ[1]].proto /\ ~IsRootName(l.typ[1])

C5_DeepNestingOneDiagnostic ==
  Done =>
    \A c \in RootLits : \A f1 \in RequiredNames(c.typ[1]) : \A v1 \in ValuesOf(c, f1) :
    \A l1 \in Direct(v1) : \A f2 \in RequiredNames(l1.typ[1]) : \A v2 \in ValuesOf(l1, f2) :
    \A l2 \in Direct(v2) : \A f3 \in RequiredNames(l2.typ[1]) : \A v3 \in ValuesOf(l2, f3) :
      (NonRootLit(l1) /\ NonRootLit(l2) /\ v3.k = "nil") =>
        /\ Cardinality(At(v3.pos)) = 1
        /\ \A i \in At(v3.pos) : diags[i].path = <<f1, f2, f3>>
        /\ \A i \in Within(c) : diags[i].path \notin { <<f1>>, <<f1, f2>> }

(***************************************************************************)
(* C6.  No diagnostic is about a field of double-indirection type or of    *)
(* collection type: no diagnostic names such a field of its owner type,    *)
(* and there is none at a nil given to such a field, by a keyed element of *)
(* a literal at any depth or by a field assignment.                        *)
(***************************************************************************)
\* The fields named f of the record type named n.
FieldsNamed(n, f) ==
  { Schema[n].fields[i] : i \in { j \in 1..Len(Schema[n].fields) : Schema[n].fields[j].name = f } }

\* The field assignments of the file: <<owner type, field name, value>>.
FieldAssignments ==
  UNION { { <<TypeOf(s.lhs[j].x), s.lhs[j].sel, s.rhs[j]>> :
              j \in { h \in 1..Len(s.lhs) : h <= Len(s.rhs) /\ s.lhs[h].k = "sel" } } :
          s \in Assignments }

\* No diagnostic is about a field of one of the classes.
NeverReported(classes) ==
  /\ \A i \in 1..Len(diags) :
       diags[i].owner # NoType =>
         \A fld \in FieldsNamed(Last(diags[i].owner), Last(diags[i].path)) :
           ClassOf(fld) \notin classes
  /\ \A l \in AllLits : \A j \in 1..Len(l.elts) :
       \A fld \in FieldsNamed(l.typ[1], l.elts[j].key) :
         (ClassOf(fld) \in classes /\ l.elts[j].val.k \in {"nil", "basic"})
           => At(l.elts[j].val.pos) = { }
  /\ \A a \in FieldAssignments :
       a[1] # NoType =>
         \A fld \in FieldsNamed(Last(a[1]), a[2]) :
           (ClassOf(fld) \in classes /\ a[3].k \in {"nil", "basic"}) => At(a[3].pos) = { }

C6_OptionalAndCollectionFieldsSilent == NeverReported({"OptionalRecord"})

\* A walk from a Root-Type literal has gone through an Address literal below
\* it that sets Apartment (double indirection) to nil and leaves Tags (a
\* collection) out.
C6_Witness ==
  /\ Done
  /\ \E c \in RootLits : \E l \in AllLits :
       /\ l.typ = <<"Address">> /\ l # c /\ IsPrefix(c.pos, l.pos)
       /\ \E v \in ValuesOf(l, "Apartment") : v.k = "nil"
       /\ "Tags" \notin Keys(l)

(***************************************************************************)
(* C7.  No diagnostic is about a Scalar field (one whose element type has  *)
(* no ProtoMessage capability): no diagnostic names such a field of its    *)
(* owner type, and there is none at a value given to such a field, by a    *)
(* keyed element of a literal at any depth or by a field assignment.       *)
(***************************************************************************)
C7_ScalarFieldsSilent == NeverReported({"Scalar"})

\* A walk from a Root-Type literal has gone through a User literal below it
\* that sets Meta (a struct without ProtoMessage) to nil and leaves Name out.
C7_Witness ==
  /\ Done
  /\ \E c \in RootLits : \E l \in AllLits :
       /\ l.typ = <<"User">> /\ l # c /\ IsPrefix(c.pos, l.pos)
       /\ \E v \in ValuesOf(l, "Meta") : v.k = "nil"
       /\ "Name" \notin Keys(l)

(***************************************************************************)
(* C8.  If every required field of every Root-Type literal of the file has *)
(* a keyed element, every value given to a required field of a Root Type   *)
(* (by a literal or by a field assignment) is non-null, and the same holds *)
(* for the literals these values are, inline or through variables, then    *)
(* the scan reports nothing.  The result of a call is non-null.            *)
(***************************************************************************)
RECURSIVE IsNull(_)
\* Null values: nil, a conversion of nil, a variable declared without an
\* initializer or with a null one.
IsNull(e) ==
  CASE e.k = "nil" -> TRUE
    [] e.k = "call" -> e.conv /\ Len(e.args) = 1 /\ e.args[1].k = "nil"
    [] e.k = "ident" ->
         \/ DeclaredWithoutInitializer(e) /\ e.typ[1] = "*"
         \/ \E v \in Initializers(e) : IsNull(v)
    [] OTHER -> FALSE

RECURSIVE FullyPopulated(_)
FullyPopulated(e) ==
  /\ ~IsNull(e)
  /\ \A l \in Direct(e) \cup BoundLits(e) :
       \A f \in RequiredNames(l.typ[1]) :
         /\ f \in Keys(l)
         /\ \A v \in ValuesOf(l, f) : FullyPopulated(v)

PopulatedUnit ==
  /\ \A c \in RootLits : RequiredNames(c.typ[1]) \subseteq Keys(c)
  /\ \A u \in RootFieldUses : FullyPopulated(u[1])

C8_PopulatedUnitIsSilent == (Done /\ PopulatedUnit) => diags = << >>

(***************************************************************************)
(* C9.  Every diagnostic is reported by the visit of an entry point of a   *)
(* Root Type (a literal of a Root Type, a return of one, or an assignment  *)
(* to a field of a Root-Type value), and a file without such an entry      *)
(* point gets no diagnostic, whatever its literals of other record types   *)
(* and its assignments to their fields leave nil or out.                   *)
(***************************************************************************)
RootEntry(n) ==
  CASE n.kind = "CompositeLit" -> IsRootType(n.node.typ)
    [] n.kind = "ReturnStmt" ->
         \E j \in 1..Len(n.node.rhs) :
           n.node.rhs[j].k = "lit" /\ IsRootType(n.node.rhs[j].typ)
    [] n.kind = "AssignStmt" ->
         \E j \in 1..Len(n.node.lhs) :
           n.node.lhs[j].k = "sel" /\ IsRootType(TypeOf(n.node.lhs[j].x))

NoRootEntry == \A j \in 1..Len(Nodes) : ~RootEntry(Nodes[j])

C10_NilThroughSelectorChain ==
  Done =>
    \A s \in Assignments : \A j \in 1..Len(s.lhs) :
      ( /\ j <= Len(s.rhs) /\ s.rhs[j].k = "nil"
        /\ s.lhs[j].k = "sel" /\ s.lhs[j].x.k = "sel"
        /\ IsRootType(TypeOf(s.lhs[j].x.x))
        /\ TypeOf(s.lhs[j].x) # NoType
        /\ ~IsRootType(TypeOf(s.lhs[j].x))
        /\ s.lhs[j].sel \in RequiredNames(Last(TypeOf(s.lhs[j].x))) )
      => \E i \in At(s.rhs[j].pos) :
           diags[i].tmpl = "NilAssign" /\ diags[i].path = <<s.lhs[j].sel>>

(***************************************************************************)
(* C11.  A field whose type is one of the registered wrapper records is    *)
(* never among the fields getMessageFields returns for its struct,         *)
(* whichever module the wrapper type comes from (the module of the         *)
(* well-known types included), and no diagnostic is about such a field.    *)
(***************************************************************************)
\* The names of the fields getMessageFields returns for the record type n.
MessageFieldNames(n) ==
  { getMessageFields(Schema[n].fields)[i].name :
      i \in 1..Len(getMessageFields(Schema[n].fields)) }

C11_WrappersAreScalar ==
  /\ \A n \in NamedTypes : \A i \in 1..Len(Schema[n].fields) :
       ClassOf(Schema[n].fields[i]) = "Wrapper"
         => Schema[n].fields[i].name \notin MessageFieldNames(n)
  /\ NeverReported({"Wrapper"})

(***************************************************************************)
(* C12.  A field of a well-known type (by the module the type comes from)  *)
(* that is not a collection, not optional and not a wrapper is required:   *)
(* a Root-Type literal that leaves it out gets an                          *)
(* UninitializedRequiredField diagnostic for it at the literal, and a nil  *)
(* given to it, by a literal or by a field assignment, gets an             *)
(* ExplicitNull diagnostic for it at the nil.                              *)
(***************************************************************************)
WellKnownRequired(n) ==
  { Schema[n].fields[i].name : i \in { j \in 1..Len(Schema[n].fields) :
        /\ Schema[n].fields[j].exported
        /\ ClassOf(Schema[n].fields[j]) = "RequiredRecord"
        /\ IsWellKnown(Schema[n].fields[j].typ) } }

C12_WellKnownFieldsRequired ==
  Done =>
    /\ \A c \in RootLits : \A f \in WellKnownRequired(c.typ[1]) :
         /\ f \notin Keys(c) =>
              At(c.pos) \cap OfKind(UninitializedRequiredField) \cap ForField(f) # { }
         /\ \A v \in ValuesOf(c, f) :
              v.k = "nil" => At(v.pos) \cap OfKind(ExplicitNull) \cap ForField(f) # { }
    /\ \A a \in FieldAssignments :
         (IsRootType(a[1]) /\ a[2] \in WellKnownRequired(Last(a[1])) /\ a[3].k = "nil")
           => At(a[3].pos) \cap OfKind(ExplicitNull) \cap ForField(a[2]) # { }

\* The scan of a file has ended in which a Root-Type literal leaves one
\* well-known field out and sets another, of the other origin, to nil.
C12_Witness ==
  /\ Done
  /\ \E c \in RootLits :
       /\ c.typ = <<"ProfileResponse">>
       /\ "Created" \notin Keys(c)
       /\ \E v \in ValuesOf(c, "Birthday") : v.k = "nil"

(***************************************************************************)
(* C13.  The result of a function call is never taken for nil, whatever    *)
(* the arguments of the call (f(nil) included): isNilValue is false for    *)
(* it, and a required field of a Root Type that is given the result of a   *)
(* call gets no diagnostic.  Only the conversion T(nil) is a typed nil.    *)
(***************************************************************************)
OpaqueCall(e) == e.k = "call" /\ ~e.conv

C13_OpaqueCallsAreNotNull ==
  /\ \A u \in RootFieldUses : OpaqueCall(u[1]) => ~isNilValue(u[1])
  /\ Done => \A u \in RootFieldUses : OpaqueCall(u[1]) => At(u[1].pos) = { }

SelfReferential(n) ==
  \E i \in 1..Len(Schema[n].fields) : Schema[n].fields[i].typ = <<"*", n>>

ReturnNodes == { i \in 1..Len(Nodes) : Nodes[i].kind = "ReturnStmt" }
LitNode(l) ==
  CHOOSE j \in 1..Len(Nodes) : Nodes[j].kind = "CompositeLit" /\ Nodes[j].node.pos = l.pos

\* The Root-Type literals that are direct results of the return statement i.
ReturnedLits(i) ==
  { Nodes[i].node.rhs[k] :
      k \in { h \in 1..Len(Nodes[i].node.rhs) :
                Nodes[i].node.rhs[h].k = "lit" /\ IsRootType(Nodes[i].node.rhs[h].typ) } }

C16_ReturnedLiteralValidatedOnce ==
  \A i \in ReturnNodes : \A l \in ReturnedLits(i) :
    /\ idx > i => l.pos \in analyzedComposites
    /\ idx > LitNode(l) =>
         /\ \A d \in 1..Len(diags) : origin[d] # LitNode(l)
         /\ \A f \in RequiredNames(l.typ[1]) :
              /\ f \notin Keys(l) =>
                   Cardinality(At(l.pos) \cap OfKind(UninitializedRequiredField)
                               \cap ForField(f)) = 1
              /\ \A v \in ValuesOf(l, f) : v.k = "nil" => Cardinality(At(v.pos)) = 1

\* The scan has ended on a file that returns a Root-Type literal which
\* leaves a required field out.
C16_Witness ==
  /\ Done
  /\ \E i \in ReturnNodes : \E l \in ReturnedLits(i) :
       /\ LitNode(l) > i
       /\ RequiredNames(l.typ[1]) \ Keys(l) # { }

(***************************************************************************)
(* C17.  Every diagnostic of the scan, reported at a declaration or at a   *)
(* use, is of one of three kinds and its text is an instance of the        *)
(* template of its kind: ExplicitNull names one dot-joined field path and   *)
(* the owner type, ImplicitNull names the variable and one field path,     *)
(* UninitializedRequiredField names one field path and the owner type.     *)
(***************************************************************************)
ExplicitNullText(fieldPath, ownerType) ==
  << "nil assignment to non-optional message field '", fieldPath,
     "' in protobuf message '", ownerType, "'" >>
ImplicitNullText(name, fieldPath) ==
  << "variable '", name, "' used for field '", fieldPath, "' is nil" >>
UninitializedRequiredFieldText(fieldPath, ownerType) ==
  << "non-optional message field '", fieldPath,
     "' not initialized in protobuf message '", ownerType, "'" >>

\* A text is an instance of a template also when a remark in parentheses
\* follows the template's words.
Remarks == { " (zero value)" }

InstanceOfATemplate(m) ==
  \/ /\ Len(m) = 5
     /\ \/ m = ExplicitNullText(m[2], m[4])
        \/ m = ImplicitNullText(m[2], m[4])
        \/ m = UninitializedRequiredFieldText(m[2], m[4])
  \/ /\ Len(m) = 6
     /\ m[6] \in Remarks
     /\ SubSeq(m, 1, 5) = ImplicitNullText(m[2], m[4])

C17_ThreeTemplates ==
  \A i \in 1..Len(diags) : InstanceOfATemplate(Message(diags[i]))

(***************************************************************************)
(* C18.  A diagnostic whose field path has more than one segment names as  *)
(* its protobuf message the Root Type whose literal or assignment started  *)
(* the walk, not the nested record type in which the field was found.      *)
(***************************************************************************)
\* The Root Types (by name) the visit of a node starts a walk at.
RootNamesOf(n) ==
  CASE n.kind = "CompositeLit" ->
         IF IsRootType(n.node.typ) THEN {Last(n.node.typ)} ELSE { }
    [] n.kind = "ReturnStmt" ->
         { Last(n.node.rhs[j].typ) :
             j \in { h \in 1..Len(n.node.rhs) :
                       n.node.rhs[h].k = "lit" /\ IsRootType(n.node.rhs[h].typ) } }
    [] n.kind = "AssignStmt" ->
         { Last(TypeOf(n.node.lhs[j].x)) :
             j \in { h \in 1..Len(n.node.lhs) :
                       n.node.lhs[h].k = "sel" /\ IsRootType(TypeOf(n.node.lhs[h].x)) } }

NamesOwner(i) == diags[i].tmpl \in ExplicitNull \cup UninitializedRequiredField

C18_OwnerIsTheRootType ==
  \A i \in 1..Len(diags) :
    (NamesOwner(i) /\ Len(diags[i].path) > 1) =>
      /\ diags[i].owner # << >>
      /\ Last(diags[i].owner) \in RootNamesOf(Nodes[origin[i]])

(***************************************************************************)
(* C19.  A diagnostic for a fault found in the initializer of a traced     *)
(* variable, at any depth and through nested literals, & and further       *)
(* traced variables, is reported at the identifier of the node under visit *)
(* where the variable is used, never at a position inside a declaration.   *)
(***************************************************************************)
\* The identifiers written in an expression.
RECURSIVE IdentsIn(_)
IdentsIn(e) ==
  CASE e.k = "ident" -> { e }
    [] e.k = "lit" -> UNION { IdentsIn(e.elts[i].val) : i \in 1..Len(e.elts) }
    [] e.k = "addr" -> IdentsIn(e.x)
    [] e.k = "call" -> UNION { IdentsIn(e.args[i]) : i \in 1..Len(e.args) }
    [] e.k = "sel" -> { }
    [] OTHER -> { }

\* The reference sites of a node: the traced identifiers used as values in it.
ReferenceSites(n) ==
  { id \in IF n.kind = "CompositeLit" THEN IdentsIn(n.node)
           ELSE UNION { IdentsIn(n.node.rhs[j]) : j \in 1..Len(n.node.rhs) } :
      Bindings(id) # { } }

\* The statements that bind some variable.
Declarations == { k \in 1..Len(prog) : prog[k].k = "var" \/ prog[k].tok = ":=" }

\* The formats of the at-use functions; the variable format is theirs too.
AtUse == {"UseNil", "UseNotInit"}

UsedIdents == UNION { UNION { IdentsIn(prog[k].rhs[j]) : j \in 1..Len(prog[k].rhs) } :
                      k \in 1..Len(prog) }

ZeroValueIsNull(t) == t # << >> /\ (t[1] = "*" \/ t = <<"interface">>)

ZeroRecords ==
  { id \in UsedIdents : DeclaredWithoutInitializer(id) /\ ~ZeroValueIsNull(id.typ) }

C20_ZeroRecordIsSilent ==
  \A id \in ZeroRecords :
    /\ At(id.pos) = { }
    /\ \A i \in 1..Len(diags) : diags[i].name # id.name

(***************************************************************************)
(* C21.  A reference to a symbol without a declaration in the file (a      *)
(* parameter, a named result, an external binding) is not null and gets no *)
(* diagnostic; the elements that follow it in the literal are still        *)
(* checked.                                                                *)
(***************************************************************************)
Unresolved(id) == id.k = "ident" /\ id.obj # NoObj /\ Bindings(id) = { }

\* The elements of literal c after its element for field f.
After(c, f) ==
  { c.elts[j] : j \in { h \in 1..Len(c.elts) :
                          \E g \in 1..(h - 1) : c.elts[g].key = f } }

C21_UnresolvedIsAssumedValid ==
  /\ \A id \in UsedIdents :
       Unresolved(id) =>
         /\ ~isNilValue(id)
         /\ At(id.pos) = { }
         /\ \A i \in 1..Len(diags) : diags[i].name # id.name
  /\ Done =>
       \A c \in RootLits : \A f \in RequiredNames(c.typ[1]) : \A v \in ValuesOf(c, f) :
         Unresolved(v) =>
           \A kv \in After(c, f) :
             (kv.key \in RequiredNames(c.typ[1]) /\ kv.val.k = "nil") =>
               At(kv.val.pos) \cap OfKind(ExplicitNull) # { }

\* The scan of a file is over in which a response literal takes a required
\* field from a parameter and sets a later required field to nil.
C21_Witness ==
  /\ Done
  /\ \E c \in RootLits : \E f \in RequiredNames(c.typ[1]) : \E v \in ValuesOf(c, f) :
       /\ Unresolved(v)
       /\ \E kv \in After(c, f) :
            kv.key \in RequiredNames(c.typ[1]) /\ kv.val.k = "nil"

(***************************************************************************)
(* C22.  A reference to a variable whose declaration, a var declaration or *)
(* a := statement, gives it a null initializer (nil, a conversion of nil,  *)
(* another null variable) is null: used for a required field of a Root     *)
(* Type it is reported at the use.                                         *)
(***************************************************************************)
HasNullInitializer(id) ==
  id.k = "ident" /\ \E v \in Initializers(id) : IsNull(v)

C22_NullInitializerMakesNull ==
  /\ \A id \in UsedIdents : HasNullInitializer(id) => isNilValue(id)
  /\ Done =>
       \A u \in RootFieldUses :
         HasNullInitializer(u[1]) =>
           At(u[1].pos) \cap OfKind(ExplicitNull \cup ImplicitNull) # { }

(***************************************************************************)
(* C23.  A variable used for a required field of a Root Type whose         *)
(* initializer is another variable, or the address of one, is followed to  *)
(* the literal behind it: every required field that literal omits or sets  *)
(* to nil is reported at the use of the first variable, with the two-      *)
(* segment path.                                                           *)
(***************************************************************************)
\* The literals behind an expression: itself, the operand of &, or those
\* behind the initializers of the variable.
RECURSIVE Underlying(_)
Underlying(e) ==
  CASE e.k = "lit" -> { e }
    [] e.k = "addr" -> Underlying(e.x)
    [] e.k = "ident" -> UNION { Underlying(v) : v \in Initializers(e) }
    [] OTHER -> { }

\* The initializers of id that are a variable or the address of one.
VariableInitializers(id) ==
  IF id.k # "ident" THEN { }
  ELSE { v \in Initializers(id) : v.k = "ident" \/ (v.k = "addr" /\ v.x.k = "ident") }

C23_InitializerChainIsFollowed ==
  Done =>
    \A u \in RootFieldUses : \A v \in VariableInitializers(u[1]) : \A l \in Underlying(v) :
      \A f \in RequiredNames(l.typ[1]) :
        /\ f \notin Keys(l) =>
             \E i \in At(u[1].pos) \cap OfKind(UninitializedRequiredField) :
               diags[i].path = <<u[2], f>>
        /\ (\E w \in ValuesOf(l, f) : w.k = "nil") =>
             \E i \in At(u[1].pos) \cap OfKind(ExplicitNull) :
               diags[i].path = <<u[2], f>>

(***************************************************************************)
(* C24.  A reference that resolves is resolved to one statement, the one   *)
(* that introduces the symbol: a later := statement that has the symbol on *)
(* its left again is not its declaration, and the faults reported at a use *)
(* of the variable are those of the declaration's initializer.             *)
(***************************************************************************)
\* The statement that introduces the symbol of id: the first that binds it.
Declaration(id) == Min(Bindings(id))

\* The initializers the declaration gives to id.
DeclaredInitializers(id) ==
  LET s == prog[Declaration(id)]
  IN { s.rhs[j] : j \in { h \in 1..Len(s.rhs) :
                            h <= Len(s.lhs) /\ s.lhs[h].k = "ident" /\ s.lhs[h].obj = id.obj } }

\* The statement validateVariableMessage validates the use of id against.
ResolvedTo(id) ==
  IF findDefine(id.obj) # 0 THEN findDefine(id.obj) ELSE findValueSpec(id.obj)

BoundAgain(id) == id.k = "ident" /\ Cardinality(Bindings(id)) > 1

C24_ResolvesToTheDeclaration ==
  /\ \A id \in UsedIdents :
       (Bindings(id) # { } /\ ResolvedTo(id) # 0) => ResolvedTo(id) = Declaration(id)
  /\ Done =>
       \A u \in RootFieldUses :
         BoundAgain(u[1]) =>
           \A v \in DeclaredInitializers(u[1]) : \A l \in Underlying(v) :
             \A f \in RequiredNames(l.typ[1]) :
               (\E w \in ValuesOf(l, f) : w.k = "nil") =>
                 \E i \in At(u[1].pos) \cap OfKind(ExplicitNull) : diags[i].path = <<u[2], f>>

(***************************************************************************)
(* C25.  A Root-Type literal written as the value of a required field of   *)
(* another Root-Type literal, or as the right-hand side of an assignment   *)
(* to a required field of a Root Type, has each of its violations reported *)
(* once in the run: one diagnostic for each required field it omits, one   *)
(* for each nil it gives to a required field.                              *)
(***************************************************************************)
InnerRootLits == { c \in RootLits : \E u \in RootFieldUses : c \in Direct(u[1]) }

ReportedOnce(c) ==
  \A f \in RequiredNames(c.typ[1]) :
    /\ f \notin Keys(c) =>
         Cardinality({ i \in At(c.pos) \cap OfKind(UninitializedRequiredField) :
                         Last(diags[i].path) = f }) = 1
    /\ \A v \in ValuesOf(c, f) :
         v.k = "nil" => Cardinality(At(v.pos) \cap OfKind(ExplicitNull)) = 1

C25_InnerRootLiteralReportedOnce == Done => \A c \in InnerRootLits : ReportedOnce(c)

(***************************************************************************)
(* C26.  In a validated literal, a non-null value of a record type given   *)
(* to a field with a key is validated with the extended path, whether the  *)
(* field is a RequiredRecord or an OptionalRecord: the required fields     *)
(* that the construction behind the value omits or sets to nil are         *)
(* reported with the path of the field followed by their name.             *)
(***************************************************************************)
\* A record type behind any number of indirections.
RECURSIVE IsRecordValue(_)
IsRecordValue(t) ==
  IF t = << >> THEN FALSE
  ELSE IF t[1] = "*" THEN IsRecordValue(Tail(t))
  ELSE Len(t) = 1 /\ t[1] \in NamedTypes /\ Schema[t[1]].proto

\* The construction a value stands for: the literal it is written as, or the
\* literal that the one declaration of the variable (or of the operand of &)
\* binds it to.
VariableOf(v) ==
  IF v.k = "ident" THEN { v }
  ELSE IF v.k = "addr" /\ v.x.k = "ident" THEN { v.x }
  ELSE { }
Construction(v) ==
  Direct(v) \cup UNION { BoundLits(x) : x \in { y \in VariableOf(v) : Cardinality(Bindings(y)) = 1 } }

\* The elements of literal c whose field is of one of the classes.
ElementsOfClass(c, classes) ==
  { c.elts[j] : j \in { h \in 1..Len(c.elts) :
        \E g \in 1..Len(Schema[c.typ[1]].fields) :
          /\ Schema[c.typ[1]].fields[g].name = c.elts[h].key
          /\ Schema[c.typ[1]].fields[g].exported
          /\ ClassOf(Schema[c.typ[1]].fields[g]) \in classes } }

RecursesInto(c, classes) ==
  \A kv \in ElementsOfClass(c, classes) :
    (~IsNull(kv.val) /\ IsRecordValue(TypeOf(kv.val))) =>
      \A l \in Construction(kv.val) : \A f \in RequiredNames(l.typ[1]) :
        /\ f \notin Keys(l) =>
             \E i \in OfKind(UninitializedRequiredField) : diags[i].path = <<kv.key, f>>
        /\ (\E w \in ValuesOf(l, f) : w.k = "nil") =>
             \E i \in OfKind(ExplicitNull) : diags[i].path = <<kv.key, f>>

C26_RecursionWhateverTheClass ==
  Done => \A c \in RootLits : RecursesInto(c, {"RequiredRecord", "OptionalRecord"})

(***************************************************************************)
(* C27.  For a variable declared together with others, var a, b = x, y, a  *)
(* reference to one name is null exactly when the initializer at the index *)
(* of that name is: a nil given to a sibling does not make it null, and    *)
(* its use for a required field is then not reported as null.              *)
(***************************************************************************)
\* The identifiers declared by a var statement with several names and values.
DeclaredWithSiblings(id) ==
  /\ id.k = "ident"
  /\ Bindings(id) # { }
  /\ \A k \in Bindings(id) :
       prog[k].k = "var" /\ Len(prog[k].lhs) > 1 /\ Len(prog[k].rhs) = Len(prog[k].lhs)

C27_OwnInitializerDecides ==
  /\ \A id \in UsedIdents :
       DeclaredWithSiblings(id) =>
         (isNilValue(id) <=> \E v \in Initializers(id) : isNilValue(v))
  /\ Done =>
       \A u \in RootFieldUses :
         (DeclaredWithSiblings(u[1]) /\ \A v \in Initializers(u[1]) : ~isNilValue(v)) =>
           \A i \in At(u[1].pos) \cap OfKind(ExplicitNull \cup ImplicitNull) :
             diags[i].path # <<u[2]>>

(***************************************************************************)
(* C28.  A generated file among the files of the pass does not take away   *)
(* the diagnostics of the other files: when run() has returned, every      *)
(* required field that a Root-Type literal of the hand-written file omits  *)
(* is reported at the literal, and every nil that an assignment gives to a *)
(* required field of a response is reported at the nil, as they are when   *)
(* the pass has no generated file.                                         *)
(***************************************************************************)
OuterRootLits == RootLits \ InnerRootLits

ViolationsReported ==
  /\ \A c \in OuterRootLits : \A f \in RequiredNames(c.typ[1]) :
       f \notin Keys(c) =>
         \E i \in At(c.pos) \cap OfKind(UninitializedRequiredField) : diags[i].path = <<f>>
  /\ \A u \in RootFieldUses :
       u[1].k = "nil" =>
         \E i \in At(u[1].pos) \cap OfKind(ExplicitNull) : diags[i].path = <<u[2]>>

C28_GeneratedFileSuppressesOnlyItself == Done => ViolationsReported

(***************************************************************************)
(* C29.  Only elements with a key mark a field as present.  A validated    *)
(* literal written entirely without keys gets one                          *)
(* UninitializedRequiredField diagnostic for every required field of its   *)
(* type, at the literal, and nothing else is reported inside it: its       *)
(* values are neither tested for nil nor validated.                        *)
(***************************************************************************)
WithoutKeys(c) == c.elts # << >> /\ \A j \in 1..Len(c.elts) : c.elts[j].key = NoKey

\* The literals the scan validates: the outer Root-Type literals, and the
\* literals of other record types written as the value of a required field
\* of one.
ValidatedLits ==
  OuterRootLits
  \cup UNION { UNION { UNION { { l \in Direct(v) : NonRootLit(l) } : v \in ValuesOf(c, f) } :
                       f \in RequiredNames(c.typ[1]) } :
               c \in OuterRootLits }

C29_PositionalElementsAreSkipped ==
  Done =>
    \A c \in ValidatedLits :
      WithoutKeys(c) =>
        /\ \A f \in RequiredNames(c.typ[1]) :
             Cardinality({ i \in At(c.pos) \cap OfKind(UninitializedRequiredField) :
                             Last(diags[i].path) = f }) = 1
        /\ \A i \in Within(c) :
             diags[i].pos = c.pos /\ diags[i].tmpl \in UninitializedRequiredField

\* The scan is over of a file with a validated literal written without keys
\* that has a nil among its values, and of one that has a literal with an
\* omitted required field among them.
PositionalWith(c) ==
  IF \E j \in 1..Len(c.elts) : c.elts[j].val.k = "nil" THEN "nil"
  ELSE IF \E j \in 1..Len(c.elts) : \E l \in Direct(c.elts[j].val) :
            \E f \in RequiredNames(l.typ[1]) : f \notin Keys(l) THEN "literal"
  ELSE "other"

C29_Witness ==
  /\ Done
  /\ \E c \in ValidatedLits :
       /\ WithoutKeys(c)
       /\ RequiredNames(c.typ[1]) # { }
       /\ PositionalWith(c) \in {"nil", "literal"}

(***************************************************************************)
(* C30.  The order of the diagnostics.  Across the run they are in the     *)
(* order in which the traversal visits the entry points.  Within the       *)
(* validation of one construction, the diagnostics of its elements with a  *)
(* key, with all that is found inside their values, come first, in the     *)
(* order of the elements, and the UninitializedRequiredField diagnostics   *)
(* of the construction come last, in the order in which the type declares  *)
(* its fields.                                                             *)
(***************************************************************************)
Front(p) == SubSeq(p, 1, Len(p) - 1)

\* Diagnostic i reports a field that its construction omits.
IsOmission(i) == diags[i].tmpl \in UninitializedRequiredField

\* Diagnostics i and j come from the validation of the same entry point at
\* the same place of report (the use, for a traced variable) or in the same
\* written literal.
SameWalk(i, j) ==
  /\ origin[i] = origin[j]
  /\ (diags[i].tmpl \in AtUse \/ diags[j].tmpl \in AtUse) => diags[i].pos = diags[j].pos

\* j is a diagnostic of an element of the construction whose omission i is:
\* its path goes through the construction and it is not an omission of it.
ElementOfConstruction(j, i) ==
  /\ SameWalk(i, j)
  /\ IsPrefix(Front(diags[i].path), diags[j].path)
  /\ Len(diags[j].path) >= Len(diags[i].path)
  /\ ~(IsOmission(j) /\ Len(diags[j].path) = Len(diags[i].path))

\* The place of the field named f among the fields of the type named n.
FieldIndex(n, f) == Min({ g \in 1..Len(Schema[n].fields) : Schema[n].fields[g].name = f })
\* The place of the element for field f among the elements of literal c.
ElementIndex(c, f) == Min({ h \in 1..Len(c.elts) : c.elts[h].key = f })

C30_OrderOfDiagnostics ==
  /\ \A i, j \in 1..Len(diags) : i < j => origin[i] <= origin[j]
  /\ \A i, j \in 1..Len(diags) :
       (IsOmission(i) /\ ElementOfConstruction(j, i)) => j < i
  /\ \A i, j \in 1..Len(diags) :
       ( /\ IsOmission(i) /\ IsOmission(j) /\ SameWalk(i, j)
         /\ diags[i].pos = diags[j].pos
         /\ diags[i].owner = diags[j].owner
         /\ Front(diags[i].path) = Front(diags[j].path)
         /\ FieldIndex(Last(diags[i].owner), Last(diags[i].path))
              < FieldIndex(Last(diags[j].owner), Last(diags[j].path)) ) => i < j
  /\ \A i, j \in 1..Len(diags) :
       LET n == Nodes[origin[i]] IN
       ( /\ origin[i] = origin[j]
         /\ n.kind = "CompositeLit"
         /\ ~IsOmission(i) \/ Len(diags[i].path) > 1
         /\ ~IsOmission(j) \/ Len(diags[j].path) > 1
         /\ diags[i].path[1] \in Keys(n.node) /\ diags[j].path[1] \in Keys(n.node)
         /\ ElementIndex(n.node, diags[i].path[1]) < ElementIndex(n.node, diags[j].path[1]) )
       => i < j

\* The scan is over and has reported, for one entry point, a diagnostic found
\* inside the value of an element and, after it, a field the literal omits.
C30_Witness ==
  /\ Done
  /\ \E i, k \in 1..Len(diags) :
       /\ IsOmission(k) /\ Len(diags[k].path) = 1
       /\ ElementOfConstruction(i, k)
       /\ Len(diags[i].path) > 1

====
